---- MODULE Spec2Model ----
(***************************************************************************)
(* Resilience layer of the MCP media server: the circuit breaker and the   *)
(* error monitor of src/utils/error_monitor.py and the connection manager  *)
(* (primary -> secondary credentials -> local fallback ladder) of          *)
(* src/db/connection_manager.py.                                           *)
(*                                                                         *)
(* Spec        the handlers as the asyncio event loop runs them: none of   *)
(*             them suspends (the awaited coroutines contain no await of   *)
(*             their own), so every call is one atomic step.               *)
(* SpecThreads record_failure executed by several threads without a lock,  *)
(*             one step per read or write of a breaker field.              *)
(***************************************************************************)
EXTENDS Integers, Sequences, FiniteSets, TLC

(* ------------------------------------------------------------------ *)
(* Program constants                                                   *)
(* ------------------------------------------------------------------ *)
\* CircuitBreaker.__init__ defaults; the connection manager registers recovery_timeout = 60 too
DefaultRecoveryTimeout == 60
DefaultResetTimeout == 300

(* ------------------------------------------------------------------ *)
(* Bounds of the model                                                 *)
(* ------------------------------------------------------------------ *)
\* failure_threshold the breakers are registered with (the managers pass 5)
Threshold == 2
\* seconds between two observations of the clock
TimeStep == 60
\* number of clock advances in a run
MaxTicks == 2
\* tracked errors per context in a run (caps every failure counter)
MaxErrors == 3
\* threads calling record_failure in SpecThreads
NumCallers == 2
\* largest max_memory_items a Cache is built with (the program's default is 1000)
MaxMemoryItems == 2
\* fallback clients handed out in a run
MaxClients == 2
\* largest top_k a query asks for
MaxTopK == 2
\* eq(...) predicates a query builder accumulates in SpecBuilder
MaxWhere == 2

\* largest max_retries given to retry_with_backoff
MaxRetries == 3

Deps == {"supabase", "pinecone"}

Context(d) == IF d = "supabase" THEN "supabase_connection" ELSE "pinecone_connection"

Contexts == {Context(d) : d \in Deps}

ErrorTypes == {"ConnectionError"}

Severities == {"medium", "high"}

BackupKeyNames == {"SUPABASE_URL", "SUPABASE_KEY", "PINECONE_API_KEY"}

\* contents of the key store tried: no backup key, a lone backup URL, every backup key
BackupConfigs == {{}, {"SUPABASE_URL"}, BackupKeyNames}

\* time.time() at import, when the singletons are constructed: far from 0
StartTime == DefaultResetTimeout + DefaultRecoveryTimeout

None == 0 - 1

VARIABLES
    now,               \* time.time() / datetime.now()
    circuit_breakers,  \* ErrorMonitor.circuit_breakers: context -> CircuitBreaker
    error_counts,      \* ErrorMonitor.error_counts: "context:ErrorType" -> count
    last_errors,       \* ErrorMonitor.last_errors: "context:ErrorType" -> details
    connection_health, \* ConnectionManager.connection_health: dependency -> metrics
    last,              \* the call that produced this state: arguments, breaker before it, result
    streak,            \* context -> record_failure calls in a row since CLOSED/0 (-1: not such a run)
    pc,                \* SpecThreads: thread -> line of record_failure it is about to execute
    local,             \* SpecThreads: thread -> its locals (current_time, loaded failure_count)
    completed,         \* SpecThreads: record_failure calls that have returned
    retry,             \* SpecRetry: the call of a retry_with_backoff wrapper in progress
    db_files,          \* fallback store: database path -> rows of its videos table, in rowid order
    clients,           \* LocalSupabaseFallback instances handed out, with their query builders
    written,           \* rows a fallback client reported as inserted and no caller has deleted since
    asked,             \* client -> predicates its caller added since its last operation finished
    memory_cache,      \* Cache._memory_cache: key -> value
    expiry_times,      \* Cache._expiry_times: (key, expiry) pairs in dict order
    disk_cache,        \* the *.cache files: key -> pickled data
    use_disk_cache,    \* Cache.use_disk_cache
    max_memory_items,  \* Cache.max_memory_items
    cache_pc,          \* SpecSweep: thread -> step of set / clean_expired it is about to execute
    cache_local,       \* SpecSweep: thread -> its locals
    cache_sets,        \* key -> value and expiry of the latest set not deleted or cleared since
    vectors_table,     \* fallback index: rows of the vectors table, in rowid order
    vector_caches      \* LocalPineconeFallback instance -> its vector_cache

store_vars == <<db_files, clients, written, asked>>

cache_vars == <<memory_cache, expiry_times, disk_cache, use_disk_cache, max_memory_items,
                cache_pc, cache_local, cache_sets>>

index_vars == <<vectors_table, vector_caches>>

\* the state outside the error monitor and the connection manager
ext_vars == <<store_vars, cache_vars, index_vars>>

vars == <<now, circuit_breakers, error_counts, last_errors, connection_health,
          last, streak, pc, local, completed, retry, ext_vars>>

monitor_vars == <<now, circuit_breakers, error_counts, last_errors, connection_health,
                  last, streak>>

thread_vars == <<pc, local, completed, retry>>

\* the error monitor and the connection manager, clock and last call aside
resilience_vars == <<circuit_breakers, error_counts, last_errors, connection_health, streak>>

(* ------------------------------------------------------------------ *)
(* CircuitBreaker                                                      *)
(* ------------------------------------------------------------------ *)
CircuitState == {"closed", "open", "half_open"}

\* CircuitBreaker.__init__ at time t
NewCircuitBreaker(failure_threshold, recovery_timeout, t) ==
    [ failure_threshold |-> failure_threshold,
      recovery_timeout |-> recovery_timeout,
      reset_timeout |-> DefaultResetTimeout,
      state |-> "closed",
      failure_count |-> 0,
      last_failure_time |-> 0,
      last_success_time |-> t ]

\* record_failure opening one failure late (> in place of >=)
record_failure_late(b, t) ==
    LET b3 == [b EXCEPT !.last_failure_time = t, !.failure_count = @ + 1]
    IN  IF b3.failure_count > b3.failure_threshold
        THEN [b3 EXCEPT !.state = "open"]
        ELSE b3

\* record_failure testing the reset window against the previous failure, before
\* last_failure_time is overwritten
record_failure_window(b, t) ==
    LET b2 == IF t - b.last_failure_time > b.reset_timeout
              THEN [b EXCEPT !.failure_count = 0]
              ELSE b
        b3 == [b2 EXCEPT !.last_failure_time = t, !.failure_count = @ + 1]
    IN  IF b3.failure_count >= b3.failure_threshold
        THEN [b3 EXCEPT !.state = "open"]
        ELSE b3

\* CircuitBreaker.record_failure at time t
record_failure(b, t) ==
    LET b1 == [b EXCEPT !.last_failure_time = t]
        b2 == IF t - b1.last_failure_time > b1.reset_timeout
              THEN [b1 EXCEPT !.failure_count = 0]
              ELSE b1
        b3 == [b2 EXCEPT !.failure_count = @ + 1]
    IN  IF b3.failure_count >= b3.failure_threshold
        THEN [b3 EXCEPT !.state = "open"]
        ELSE b3

\* record_success closing the breaker but keeping the failures counted
record_success_keeps_count(b, t) ==
    LET b1 == [b EXCEPT !.last_success_time = t]
    IN  IF b1.state = "half_open"
        THEN [b1 EXCEPT !.state = "closed"]
        ELSE b1

\* record_success closing the breaker from OPEN as well
record_success_closes_open(b, t) ==
    LET b1 == [b EXCEPT !.last_success_time = t]
    IN  IF b1.state # "closed"
        THEN [b1 EXCEPT !.state = "closed", !.failure_count = 0]
        ELSE b1

\* record_success clearing the failures counted while CLOSED
record_success_clears_count(b, t) ==
    LET b1 == [b EXCEPT !.last_success_time = t]
    IN  IF b1.state # "open"
        THEN [b1 EXCEPT !.state = "closed", !.failure_count = 0]
        ELSE b1

\* CircuitBreaker.record_success at time t
record_success(b, t) ==
    LET b1 == [b EXCEPT !.last_success_time = t]
    IN  IF b1.state = "half_open"
        THEN [b1 EXCEPT !.state = "closed", !.failure_count = 0]
        ELSE b1

\* allow_request probing as soon as recovery_timeout is reached (>= in place of >)
allow_request_early(b, t) ==
    IF b.state = "open" /\ t - b.last_failure_time < b.recovery_timeout
    THEN [breaker |-> b, allowed |-> FALSE]
    ELSE IF b.state = "open"
    THEN [breaker |-> [b EXCEPT !.state = "half_open"], allowed |-> TRUE]
    ELSE [breaker |-> b, allowed |-> TRUE]

\* allow_request refusing every call while OPEN, whatever time has passed
allow_request_stays_open(b, t) ==
    IF b.state = "open"
    THEN [breaker |-> b, allowed |-> FALSE]
    ELSE [breaker |-> b, allowed |-> TRUE]

\* CircuitBreaker.allow_request at time t: the breaker afterwards and the value returned
allow_request(b, t) ==
    IF b.state = "closed"
    THEN [breaker |-> b, allowed |-> TRUE]
    ELSE IF b.state = "open"
    THEN IF t - b.last_failure_time > b.recovery_timeout
         THEN [breaker |-> [b EXCEPT !.state = "half_open"], allowed |-> TRUE]
         ELSE [breaker |-> b, allowed |-> FALSE]
    ELSE [breaker |-> b, allowed |-> TRUE]

(* ------------------------------------------------------------------ *)
(* ErrorMonitor                                                        *)
(* ------------------------------------------------------------------ *)
ErrorKeys == Contexts \X ErrorTypes

\* error_key = f"{context}:{error_type}"
ErrorKey(context, error_type) == <<context, error_type>>

NoError == [count |-> 0, severity |-> "none", timestamp |-> None]

\* track_error creating a breaker for a context that has none
track_error_registers(em, error_type, context, severity, t) ==
    LET key == ErrorKey(context, error_type)
        n == em.error_counts[key] + 1
        cbs == IF context \in DOMAIN em.circuit_breakers
               THEN em.circuit_breakers
               ELSE [c \in DOMAIN em.circuit_breakers \cup {context} |->
                       IF c = context
                       THEN NewCircuitBreaker(5, DefaultRecoveryTimeout, t)
                       ELSE em.circuit_breakers[c]]
    IN  [ error_counts |-> [em.error_counts EXCEPT ![key] = n],
          last_errors |-> [em.last_errors EXCEPT
                             ![key] = [count |-> n, severity |-> severity, timestamp |-> t]],
          circuit_breakers |-> [cbs EXCEPT ![context] = record_failure(@, t)] ]

\* ErrorMonitor.track_error: the monitor's fields afterwards
track_error(em, error_type, context, severity, t) ==
    LET key == ErrorKey(context, error_type)
        n == em.error_counts[key] + 1
    IN  [ error_counts |-> [em.error_counts EXCEPT ![key] = n],
          last_errors |-> [em.last_errors EXCEPT
                             ![key] = [count |-> n, severity |-> severity, timestamp |-> t]],
          circuit_breakers |->
              IF context \in DOMAIN em.circuit_breakers
              THEN [em.circuit_breakers EXCEPT ![context] = record_failure(@, t)]
              ELSE em.circuit_breakers ]

\* register_circuit_breaker building a fresh breaker on every call
register_circuit_breaker_overwrites(breakers, context, failure_threshold, recovery_timeout, t) ==
    [c \in DOMAIN breakers \cup {context} |->
        IF c = context
        THEN NewCircuitBreaker(failure_threshold, recovery_timeout, t)
        ELSE breakers[c]]

\* ErrorMonitor.register_circuit_breaker at time t: the breakers afterwards
register_circuit_breaker(breakers, context, failure_threshold, recovery_timeout, t) ==
    IF context \notin DOMAIN breakers
    THEN [c \in DOMAIN breakers \cup {context} |->
            IF c = context
            THEN NewCircuitBreaker(failure_threshold, recovery_timeout, t)
            ELSE breakers[c]]
    ELSE breakers

\* ErrorMonitor.circuit_is_closed: the breakers afterwards and the value returned
circuit_is_closed(breakers, context, t) ==
    IF context \notin DOMAIN breakers
    THEN [breakers |-> breakers, allowed |-> TRUE]
    ELSE LET r == allow_request(breakers[context], t)
         IN  [breakers |-> [breakers EXCEPT ![context] = r.breaker], allowed |-> r.allowed]

\* ErrorMonitor.record_success
monitor_record_success(breakers, context, t) ==
    IF context \in DOMAIN breakers
    THEN [breakers EXCEPT ![context] = record_success(@, t)]
    ELSE breakers

\* the ErrorMonitor singleton as one value
Monitor == [ error_counts |-> error_counts,
             last_errors |-> last_errors,
             circuit_breakers |-> circuit_breakers ]

(* ------------------------------------------------------------------ *)
(* Bookkeeping of the checks: runs of record_failure                   *)
(* ------------------------------------------------------------------ *)
\* streak after a record_failure at time t on a breaker that was b before it
StreakAfterFailure(s, b, t) ==
    IF s < 0 THEN s
    ELSE IF s > 0 /\ t - b.last_failure_time > b.reset_timeout THEN 0 - 1
    ELSE s + 1

\* streak after a record_success that left the breaker as b2
StreakAfterSuccess(s, b2) ==
    IF b2.state = "closed" /\ b2.failure_count = 0 THEN 0 ELSE 0 - 1

\* streak after an allow_request that took the breaker from b to b2
StreakAfterAllow(s, b, b2) ==
    IF b2.state = b.state THEN s ELSE 0 - 1

(* ------------------------------------------------------------------ *)
(* ConnectionManager                                                   *)
(* ------------------------------------------------------------------ *)
\* ConnectionManager.__init__: connection_health of one dependency
NewHealth == [healthy |-> FALSE, last_check |-> None, last_success |-> None, failure_count |-> 0]

\* key_manager.get_backup_key(...) is non-empty for every credential the dependency needs
HasBackup(d, backup) ==
    IF d = "supabase"
    THEN "SUPABASE_URL" \in backup /\ "SUPABASE_KEY" \in backup
    ELSE "PINECONE_API_KEY" \in backup

\* the secondary probe's exception reaching the caller (no try/except around it)
get_fallback_raises_secondary(d, backup, secondary_ok, local_ok, trace) ==
    IF HasBackup(d, backup)
    THEN IF secondary_ok
         THEN [ret |-> "secondary", error |-> "none",
               trace |-> Append(trace, "secondary_probe")]
         ELSE [ret |-> "raise", error |-> "secondary_error",
               trace |-> trace \o <<"secondary_probe", "secondary_failed">>]
    ELSE [ret |-> IF local_ok THEN "local_fallback" ELSE "raise",
          error |-> IF local_ok THEN "none" ELSE "fallback_error",
          trace |-> trace \o <<"no_backup_key", "local_fallback">>]

\* the local engine handed out without trying the backup credentials
get_fallback_local_first(d, backup, secondary_ok, local_ok, trace) ==
    [ret |-> IF local_ok THEN "local_fallback" ELSE "raise",
     error |-> IF local_ok THEN "none" ELSE "fallback_error",
     trace |-> Append(trace, "local_fallback")]

\* _get_supabase_fallback / _get_pinecone_fallback, entered with the steps taken so far
get_fallback(d, backup, secondary_ok, local_ok, trace) ==
    LET probed == HasBackup(d, backup)
        trace1 == IF ~probed THEN Append(trace, "no_backup_key")
                  ELSE IF secondary_ok THEN Append(trace, "secondary_probe")
                  ELSE trace \o <<"secondary_probe", "secondary_failed">>
    IN  IF probed /\ secondary_ok
        THEN [ret |-> "secondary", error |-> "none", trace |-> trace1]
        ELSE IF local_ok
        THEN [ret |-> "local_fallback", error |-> "none",
              trace |-> Append(trace1, "local_fallback")]
        ELSE [ret |-> "raise", error |-> "fallback_error",
              trace |-> Append(trace1, "local_fallback")]

\* the result of a ladder call: monitor and health afterwards, what the caller gets
\* (ret, error) and the steps taken, in order
Outcome(em, health, ret, error, trace) ==
    [monitor |-> em, health |-> health, ret |-> ret, error |-> error, trace |-> trace]

\* a rejected call counted as a failed check in connection_health
on_circuit_open_counts(em, health, d, use_fallback, backup, secondary_ok, local_ok, t) ==
    LET trace1 == <<"breaker_check", "breaker_open">>
        h2 == [health EXCEPT ![d].healthy = FALSE, ![d].failure_count = @ + 1]
    IN  IF ~use_fallback
        THEN Outcome(em, h2, "raise", "circuit_open", trace1)
        ELSE LET f == get_fallback(d, backup, secondary_ok, local_ok, trace1)
             IN  Outcome(em, health, f.ret, f.error, f.trace)

\* the primary probed (and failing) although the breaker is open, when fallback is allowed
on_circuit_open_still_probes(em, health, d, use_fallback, backup, secondary_ok, local_ok, t) ==
    LET trace1 == <<"breaker_check", "breaker_open">>
    IN  IF ~use_fallback
        THEN Outcome(em, health, "raise", "circuit_open", trace1)
        ELSE LET em2 == track_error(em, "ConnectionError", Context(d), "high", t)
                 f == get_fallback(d, backup, secondary_ok, local_ok,
                                   trace1 \o <<"primary_probe", "primary_failed">>)
             IN  Outcome(em2, health, f.ret, f.error, f.trace)

\* get_*_client, the breaker refusing the call (circuit_is_closed returned False)
on_circuit_open(em, health, d, use_fallback, backup, secondary_ok, local_ok, t) ==
    LET trace1 == <<"breaker_check", "breaker_open">>
    IN  IF ~use_fallback
        THEN Outcome(em, health, "raise", "circuit_open", trace1)
        ELSE LET f == get_fallback(d, backup, secondary_ok, local_ok, trace1)
             IN  Outcome(em, health, f.ret, f.error, f.trace)

\* the try block returning the client without telling the breaker of the success
on_primary_success_unrecorded(em, health, d, t) ==
    Outcome(em,
            [health EXCEPT ![d].healthy = TRUE,
                           ![d].last_success = t,
                           ![d].failure_count = 0],
            "primary", "none", <<"breaker_check", "primary_probe">>)

\* get_*_client, the primary probe succeeding: the try block after the probe
on_primary_success(em, health, d, t) ==
    Outcome([em EXCEPT !.circuit_breakers = monitor_record_success(@, Context(d), t)],
            [health EXCEPT ![d].healthy = TRUE,
                           ![d].last_success = t,
                           ![d].failure_count = 0],
            "primary", "none", <<"breaker_check", "primary_probe">>)

\* the except block falling back whatever use_fallback says
on_primary_failure_always_falls_back(em, health, d, use_fallback, backup, secondary_ok, local_ok, t) ==
    LET em2 == track_error(em, "ConnectionError", Context(d), "high", t)
        h2 == [health EXCEPT ![d].healthy = FALSE, ![d].failure_count = @ + 1]
        f == get_fallback(d, backup, secondary_ok, local_ok,
                          <<"breaker_check", "primary_probe", "primary_failed">>)
    IN  Outcome(em2, h2, f.ret, f.error, f.trace)

\* the except block leaving connection_health as the last success wrote it
on_primary_failure_keeps_healthy(em, health, d, use_fallback, backup, secondary_ok, local_ok, t) ==
    LET em2 == track_error(em, "ConnectionError", Context(d), "high", t)
        trace3 == <<"breaker_check", "primary_probe", "primary_failed">>
    IN  IF use_fallback
        THEN LET f == get_fallback(d, backup, secondary_ok, local_ok, trace3)
             IN  Outcome(em2, health, f.ret, f.error, f.trace)
        ELSE Outcome(em2, health, "raise", "primary_error", trace3)

\* get_*_client, the primary probe (or the client's construction) raising: the except block
on_primary_failure(em, health, d, use_fallback, backup, secondary_ok, local_ok, t) ==
    LET em2 == track_error(em, "ConnectionError", Context(d), "high", t)
        h2 == [health EXCEPT ![d].healthy = FALSE, ![d].failure_count = @ + 1]
        trace3 == <<"breaker_check", "primary_probe", "primary_failed">>
    IN  IF use_fallback
        THEN LET f == get_fallback(d, backup, secondary_ok, local_ok, trace3)
             IN  Outcome(em2, h2, f.ret, f.error, f.trace)
        ELSE Outcome(em2, h2, "raise", "primary_error", trace3)

\* get_supabase_client / get_pinecone_client at time t
get_client(em, health, d, use_fallback, primary_ok, backup, secondary_ok, local_ok, t) ==
    LET chk == circuit_is_closed(em.circuit_breakers, Context(d), t)
        em1 == [em EXCEPT !.circuit_breakers = chk.breakers]
        h1 == [health EXCEPT ![d].last_check = t]
    IN  IF ~chk.allowed
        THEN on_circuit_open(em1, health, d, use_fallback, backup, secondary_ok, local_ok, t)
        ELSE IF primary_ok
        THEN on_primary_success(em1, h1, d, t)
        ELSE on_primary_failure(em1, h1, d, use_fallback, backup, secondary_ok, local_ok, t)

(* ------------------------------------------------------------------ *)
(* Initial state: after the module-level singletons are constructed    *)
(* ------------------------------------------------------------------ *)
NoCall == [op |-> "none", dep |-> "none", context |-> "none", use_fallback |-> FALSE,
           primary_ok |-> FALSE,
           ret |-> "none", error |-> "none", trace |-> <<>>,
           breaker |-> NewCircuitBreaker(0, 0, 0), health |-> NewHealth, errors |-> 0]

Callers == 1 .. NumCallers

NoLocals == [current_time |-> 0, failure_count |-> 0]

\* no wrapped function is being called
NoRetry == [pc |-> "idle", max_retries |-> 0, context |-> "none", retry_count |-> 0,
            invocations |-> 0, tracked |-> 0, checked |-> "none", allowed |-> TRUE,
            outcome |-> "none", raised_at |-> 0]

\* ConnectionManager.__init__: the breakers it registers with the (empty) monitor
RegisteredBreakers ==
    register_circuit_breaker(
        register_circuit_breaker(<<>>, "supabase_connection", Threshold,
                                 DefaultRecoveryTimeout, StartTime),
        "pinecone_connection", Threshold, DefaultRecoveryTimeout, StartTime)

(* ---- the fallback store, the cache and the fallback index before their first use ---- *)
\* LocalSupabaseFallback.db_path: every instance opens the same file
SupabaseDbPath == "supabase_fallback.db"

\* the database file before any LocalSupabaseFallback was constructed: no videos table
NoTable == [created |-> FALSE, rows |-> <<>>]

\* no fallback client handed out, the database file not yet initialised
IdleStore ==
    /\ db_files = [p \in {SupabaseDbPath} |-> NoTable]
    /\ clients = <<>>
    /\ written = {}
    /\ asked = <<>>

CacheKeys == {"k1", "k2"}

CacheValues == {"v1", "v2"}

\* marks a key that the dict, or the cache directory, does not hold
Absent == "absent"

\* the thread running Cache.set and the scheduler's thread running clean_expired
CacheThreads == {"setter", "sweeper"}

\* no cache file, no set on record: a data record without a value
NoData == [value |-> Absent, expiry |-> None]

NoCacheLocals == [key |-> Absent, value |-> Absent, expiry |-> None, current_time |-> 0,
                  todo |-> {}, data |-> NoData]

\* the class-level dicts as created, no *.cache file, no call in progress
EmptyCache ==
    /\ memory_cache = [k \in CacheKeys |-> Absent]
    /\ expiry_times = <<>>
    /\ disk_cache = [k \in CacheKeys |-> NoData]
    /\ cache_pc = [t \in CacheThreads |-> "idle"]
    /\ cache_local = [t \in CacheThreads |-> NoCacheLocals]
    /\ cache_sets = [k \in CacheKeys |-> NoData]

\* Cache(): use_disk_cache = True, and the memory bound
IdleCache ==
    /\ EmptyCache
    /\ use_disk_cache = TRUE
    /\ max_memory_items = MaxMemoryItems

VectorIds == {"A", "B", "C"}

MetaKeys == {"kind"}

\* a dict without keys: no metadata, no filter
NoMeta == [k \in MetaKeys |-> Absent]

\* the LocalPineconeFallback instances of the model: _get_pinecone_fallback builds a
\* new one, over the same database file, at every call that ends on the local tier
IndexClients == {"i1", "i2"}

\* the instance behind the index used by the single-caller specifications
FirstClient == "i1"

\* an id that vector_cache does not hold
NotCached == [cached |-> FALSE, values |-> <<>>, metadata |-> NoMeta, namespace |-> Absent]

\* vector_cache = {}
EmptyVectorCache == [id \in VectorIds |-> NotCached]

\* the vectors table without rows, the instances as constructed
IdleIndex ==
    /\ vectors_table = <<>>
    /\ vector_caches = [i \in IndexClients |-> EmptyVectorCache]

\* the singletons of error_monitor.py and connection_manager.py after import
InitResilience ==
    /\ now = StartTime
    /\ circuit_breakers = RegisteredBreakers
    /\ error_counts = [k \in ErrorKeys |-> 0]
    /\ last_errors = [k \in ErrorKeys |-> NoError]
    /\ connection_health = [d \in Deps |-> NewHealth]
    /\ last = NoCall
    /\ streak = [c \in Contexts |-> 0]
    /\ pc = [i \in Callers |-> "idle"]
    /\ local = [i \in Callers |-> NoLocals]
    /\ completed = 0
    /\ retry = NoRetry

Init ==
    /\ InitResilience
    /\ IdleStore
    /\ IdleCache
    /\ IdleIndex

(* ------------------------------------------------------------------ *)
(* Steps of the event loop                                             *)
(* ------------------------------------------------------------------ *)
\* the clock advances
Tick ==
    /\ now < StartTime + MaxTicks * TimeStep
    /\ now' = now + TimeStep
    /\ last' = NoCall
    /\ UNCHANGED <<circuit_breakers, error_counts, last_errors, connection_health, streak>>
    /\ UNCHANGED thread_vars
    /\ UNCHANGED ext_vars

\* error_monitor.track_error(error, context, severity)
TrackError(context, error_type, severity) ==
    \E em \in {track_error(Monitor, error_type, context, severity, now)} :
        /\ error_counts[ErrorKey(context, error_type)] < MaxErrors
        /\ circuit_breakers' = em.circuit_breakers
        /\ error_counts' = em.error_counts
        /\ last_errors' = em.last_errors
        /\ last' = [NoCall EXCEPT !.op = "track_error", !.context = context,
                                  !.breaker = circuit_breakers[context],
                                  !.errors = error_counts[ErrorKey(context, error_type)]]
        /\ streak' = [streak EXCEPT ![context] =
                         StreakAfterFailure(@, circuit_breakers[context], now)]
        /\ UNCHANGED <<now, connection_health>>
        /\ UNCHANGED thread_vars
        /\ UNCHANGED ext_vars

\* error_monitor.record_success(context)
RecordSuccess(context) ==
    \E cbs \in {monitor_record_success(circuit_breakers, context, now)} :
        /\ circuit_breakers' = cbs
        /\ last' = [NoCall EXCEPT !.op = "record_success", !.context = context,
                                  !.breaker = circuit_breakers[context]]
        /\ streak' = [streak EXCEPT ![context] = StreakAfterSuccess(@, cbs[context])]
        /\ UNCHANGED <<now, error_counts, last_errors, connection_health>>
        /\ UNCHANGED thread_vars
        /\ UNCHANGED ext_vars

\* error_monitor.circuit_is_closed(context)
CircuitIsClosed(context) ==
    \E r \in {circuit_is_closed(circuit_breakers, context, now)} :
        /\ circuit_breakers' = r.breakers
        /\ last' = [NoCall EXCEPT !.op = "circuit_is_closed", !.context = context,
                                  !.breaker = circuit_breakers[context],
                                  !.ret = IF r.allowed THEN "true" ELSE "false"]
        /\ streak' = [streak EXCEPT ![context] =
                         StreakAfterAllow(@, circuit_breakers[context], r.breakers[context])]
        /\ UNCHANGED <<now, error_counts, last_errors, connection_health>>
        /\ UNCHANGED thread_vars
        /\ UNCHANGED ext_vars

\* connection_manager.get_supabase_client(use_fallback) / get_pinecone_client(use_fallback):
\* what the call does to the monitor and to connection_health
GetClientCall(d, use_fallback, primary_ok, backup, secondary_ok, local_ok) ==
    \E r \in {get_client(Monitor, connection_health, d, use_fallback, primary_ok,
                          backup, secondary_ok, local_ok, now)} :
    LET context == Context(d)
        b == circuit_breakers[context]
        chk == allow_request(b, now)
        s1 == StreakAfterAllow(streak[context], b, chk.breaker)
        b2 == r.monitor.circuit_breakers[context]
    IN  /\ error_counts[ErrorKey(context, "ConnectionError")] < MaxErrors
        /\ circuit_breakers' = r.monitor.circuit_breakers
        /\ error_counts' = r.monitor.error_counts
        /\ last_errors' = r.monitor.last_errors
        /\ connection_health' = r.health
        /\ last' = [op |-> "get_client", dep |-> d, context |-> context,
                    use_fallback |-> use_fallback, primary_ok |-> primary_ok,
                    ret |-> r.ret, error |-> r.error, trace |-> r.trace,
                    breaker |-> b, health |-> connection_health[d],
                    errors |-> error_counts[ErrorKey(context, "ConnectionError")]]
        /\ streak' = [streak EXCEPT ![context] =
                         IF r.ret = "primary" THEN StreakAfterSuccess(s1, b2)
                         ELSE IF r.monitor.error_counts # error_counts
                         THEN StreakAfterFailure(s1, chk.breaker, now)
                         ELSE s1]
        /\ UNCHANGED now
        /\ UNCHANGED thread_vars

\* the call as the monitoring task and the health check make it: the client is dropped
GetClient(d, use_fallback, primary_ok, backup, secondary_ok, local_ok) ==
    /\ GetClientCall(d, use_fallback, primary_ok, backup, secondary_ok, local_ok)
    /\ UNCHANGED ext_vars

\* no call has reached dependency d yet
Untouched(d) ==
    /\ connection_health[d] = NewHealth
    /\ circuit_breakers[Context(d)] = RegisteredBreakers[Context(d)]

\* the breaker's gate asked directly for dependency d
Probe(d) ==
    /\ \A o \in Deps \ {d} : Untouched(o)
    /\ CircuitIsClosed(Context(d))

\* a call of get_supabase_client / get_pinecone_client
Ladder(d, use_fallback, primary_ok, backup, secondary_ok, local_ok) ==
    /\ \A o \in Deps \ {d} : Untouched(o)
    /\ GetClient(d, use_fallback, primary_ok, backup, secondary_ok, local_ok)

\* the connection manager as its callers drive it (main.py's monitoring task, the
\* health check) together with the breaker's own gate. The two managers share no
\* state, so a run follows one dependency: the other one is left untouched.
Next ==
    \/ Tick
    \/ \E d \in Deps : Probe(d)
    \/ \E d \in Deps, use_fallback \in BOOLEAN, primary_ok \in BOOLEAN,
          backup \in BackupConfigs, secondary_ok \in BOOLEAN, local_ok \in BOOLEAN :
          Ladder(d, use_fallback, primary_ok, backup, secondary_ok, local_ok)

Spec == Init /\ [][Next]_vars

\* the error monitor's public interface called directly, in any order
NextMonitor ==
    \/ Tick
    \/ \E c \in Contexts, e \in ErrorTypes, s \in Severities : TrackError(c, e, s)
    \/ \E c \in Contexts : RecordSuccess(c)
    \/ \E c \in Contexts : CircuitIsClosed(c)

SpecMonitor == Init /\ [][NextMonitor]_vars

(* ------------------------------------------------------------------ *)
(* The error monitor from its construction on: breakers are registered  *)
(* while errors are tracked                                            *)
(* ------------------------------------------------------------------ *)
\* (failure_threshold, recovery_timeout) pairs callers register with
RegisterParams == {<<Threshold, DefaultRecoveryTimeout>>,
                   <<Threshold + 1, 2 * DefaultRecoveryTimeout>>}

\* ErrorMonitor.__init__: no breaker registered, nothing tracked
InitRegistry ==
    /\ now = StartTime
    /\ circuit_breakers = <<>>
    /\ error_counts = [k \in ErrorKeys |-> 0]
    /\ last_errors = [k \in ErrorKeys |-> NoError]
    /\ connection_health = [d \in Deps |-> NewHealth]
    /\ last = NoCall
    /\ streak = [c \in Contexts |-> 0]
    /\ pc = [i \in Callers |-> "idle"]
    /\ local = [i \in Callers |-> NoLocals]
    /\ completed = 0
    /\ retry = NoRetry
    /\ IdleStore
    /\ IdleCache
    /\ IdleIndex

\* error_monitor.register_circuit_breaker(context, failure_threshold, recovery_timeout)
Register(context, failure_threshold, recovery_timeout) ==
    \E cbs \in {register_circuit_breaker(circuit_breakers, context, failure_threshold,
                                          recovery_timeout, now)} :
        /\ circuit_breakers' = cbs
        /\ last' = [op |-> "register_circuit_breaker", context |-> context,
                    failure_threshold |-> failure_threshold,
                    recovery_timeout |-> recovery_timeout,
                    monitor |-> [Monitor EXCEPT !.last_errors = <<>>],
                    returned |-> cbs[context]]
        /\ UNCHANGED <<now, error_counts, last_errors, connection_health, streak>>
        /\ UNCHANGED thread_vars
        /\ UNCHANGED ext_vars

\* error_monitor.track_error(error, context, severity), a breaker being registered or not
Track(context, error_type, severity) ==
    \E em \in {track_error(Monitor, error_type, context, severity, now)} :
        /\ error_counts[ErrorKey(context, error_type)] < MaxErrors
        /\ circuit_breakers' = em.circuit_breakers
        /\ error_counts' = em.error_counts
        /\ last_errors' = em.last_errors
        /\ last' = [op |-> "track", context |-> context, error_type |-> error_type,
                    monitor |-> [Monitor EXCEPT !.last_errors = <<>>]]
        /\ UNCHANGED <<now, connection_health, streak>>
        /\ UNCHANGED thread_vars
        /\ UNCHANGED ext_vars

NextRegistry ==
    \/ Tick
    \/ \E c \in Contexts, p \in RegisterParams : Register(c, p[1], p[2])
    \/ \E c \in Contexts, e \in ErrorTypes : Track(c, e, "high")

SpecRegistry == InitRegistry /\ [][NextRegistry]_vars

(* ------------------------------------------------------------------ *)
(* record_failure run by threads: no lock guards the breaker, so a      *)
(* thread switch can fall between any two reads or writes of a field   *)
(* ------------------------------------------------------------------ *)
\* the breaker the threads share
SharedContext == "supabase_connection"

Shared == circuit_breakers[SharedContext]

\* record_failure calls begun so far
Started == completed + Cardinality({i \in Callers : pc[i] # "idle"})

\* a thread enters record_failure; line 77: current_time = time.time()
ThreadCall(i) ==
    /\ pc[i] = "idle"
    /\ Started < MaxErrors
    /\ local' = [local EXCEPT ![i] = [current_time |-> now, failure_count |-> 0]]
    /\ pc' = [pc EXCEPT ![i] = "line78"]
    /\ UNCHANGED <<completed>>
    /\ UNCHANGED monitor_vars
    /\ UNCHANGED <<retry, ext_vars>>

\* line 78: self.last_failure_time = current_time
ThreadLine78(i) ==
    /\ pc[i] = "line78"
    /\ circuit_breakers' = [circuit_breakers EXCEPT
                              ![SharedContext].last_failure_time = local[i].current_time]
    /\ pc' = [pc EXCEPT ![i] = "line81"]
    /\ UNCHANGED <<now, error_counts, last_errors, connection_health, last, streak>>
    /\ UNCHANGED <<local, completed>>
    /\ UNCHANGED <<retry, ext_vars>>

\* lines 81-82: if current_time - self.last_failure_time > self.reset_timeout: count = 0
ThreadLine81(i) ==
    /\ pc[i] = "line81"
    /\ circuit_breakers' =
          IF local[i].current_time - Shared.last_failure_time > Shared.reset_timeout
          THEN [circuit_breakers EXCEPT ![SharedContext].failure_count = 0]
          ELSE circuit_breakers
    /\ pc' = [pc EXCEPT ![i] = "line84_load"]
    /\ UNCHANGED <<now, error_counts, last_errors, connection_health, last, streak>>
    /\ UNCHANGED <<local, completed>>
    /\ UNCHANGED <<retry, ext_vars>>

\* line 84, first half: load self.failure_count
ThreadLine84Load(i) ==
    /\ pc[i] = "line84_load"
    /\ local' = [local EXCEPT ![i].failure_count = Shared.failure_count]
    /\ pc' = [pc EXCEPT ![i] = "line84_store"]
    /\ UNCHANGED <<completed>>
    /\ UNCHANGED monitor_vars
    /\ UNCHANGED <<retry, ext_vars>>

\* line 84, second half: store the loaded value plus one
ThreadLine84Store(i) ==
    /\ pc[i] = "line84_store"
    /\ circuit_breakers' = [circuit_breakers EXCEPT
                              ![SharedContext].failure_count = local[i].failure_count + 1]
    /\ pc' = [pc EXCEPT ![i] = "line87"]
    /\ UNCHANGED <<now, error_counts, last_errors, connection_health, last, streak>>
    /\ UNCHANGED <<local, completed>>
    /\ UNCHANGED <<retry, ext_vars>>

\* line 87: if self.failure_count >= self.failure_threshold
ThreadLine87(i) ==
    /\ pc[i] = "line87"
    /\ IF Shared.failure_count >= Shared.failure_threshold
       THEN /\ pc' = [pc EXCEPT ![i] = "line91"]
            /\ UNCHANGED completed
       ELSE /\ pc' = [pc EXCEPT ![i] = "idle"]
            /\ completed' = completed + 1
    /\ UNCHANGED local
    /\ UNCHANGED monitor_vars
    /\ UNCHANGED <<retry, ext_vars>>

\* line 91: self.state = CircuitState.OPEN, and the call returns
ThreadLine91(i) ==
    /\ pc[i] = "line91"
    /\ circuit_breakers' = [circuit_breakers EXCEPT ![SharedContext].state = "open"]
    /\ pc' = [pc EXCEPT ![i] = "idle"]
    /\ completed' = completed + 1
    /\ UNCHANGED <<now, error_counts, last_errors, connection_health, last, streak>>
    /\ UNCHANGED local
    /\ UNCHANGED <<retry, ext_vars>>

\* allow_request on the shared breaker, from the event loop's thread
ThreadAllowRequest ==
    /\ \E r \in {allow_request(Shared, now)} :
          circuit_breakers' = [circuit_breakers EXCEPT ![SharedContext] = r.breaker]
    /\ UNCHANGED <<now, error_counts, last_errors, connection_health, last, streak>>
    /\ UNCHANGED thread_vars
    /\ UNCHANGED ext_vars

NextThreads ==
    \/ Tick
    \/ ThreadAllowRequest
    \/ \E i \in Callers :
          \/ ThreadCall(i)
          \/ ThreadLine78(i)
          \/ ThreadLine81(i)
          \/ ThreadLine84Load(i)
          \/ ThreadLine84Store(i)
          \/ ThreadLine87(i)
          \/ ThreadLine91(i)

SpecThreads == Init /\ [][NextThreads]_vars

(* ------------------------------------------------------------------ *)
(* One breaker over a span longer than its reset window                *)
(* ------------------------------------------------------------------ *)
\* the clock passes reset_timeout in one step: nobody calls the breaker meanwhile
LongTick ==
    /\ now < StartTime + MaxTicks * TimeStep
    /\ now' = now + DefaultResetTimeout + TimeStep
    /\ last' = NoCall
    /\ UNCHANGED <<resilience_vars, thread_vars, ext_vars>>

\* track_error, record_success and circuit_is_closed on one breaker, in any order, with
\* short and long pauses between the calls
NextWindow ==
    \/ Tick
    \/ LongTick
    \/ \E e \in ErrorTypes : TrackError(SharedContext, e, "high")
    \/ RecordSuccess(SharedContext)
    \/ CircuitIsClosed(SharedContext)

SpecWindow == Init /\ [][NextWindow]_vars

(* ------------------------------------------------------------------ *)
(* ErrorMonitor.retry_with_backoff: one call of a wrapped function     *)
(* ------------------------------------------------------------------ *)
\* circuit_breaker_context = None
NoContext == "none"

\* func.__name__ of the wrapped function
FuncName == "wrapped"

\* context = circuit_breaker_context or func.__name__
TrackContext(context) == IF context # NoContext THEN context ELSE FuncName

\* the error keys track_error can create: the wrapped function's included
RetryErrorKeys == ErrorKeys \cup ({FuncName} \X ErrorTypes)

\* the singletons after import, no wrapped function called yet
InitRetry ==
    /\ now = StartTime
    /\ circuit_breakers = RegisteredBreakers
    /\ error_counts = [k \in RetryErrorKeys |-> 0]
    /\ last_errors = [k \in RetryErrorKeys |-> NoError]
    /\ connection_health = [d \in Deps |-> NewHealth]
    /\ last = NoCall
    /\ streak = [c \in Contexts |-> 0]
    /\ pc = [i \in Callers |-> "idle"]
    /\ local = [i \in Callers |-> NoLocals]
    /\ completed = 0
    /\ retry = NoRetry
    /\ IdleStore
    /\ IdleCache
    /\ IdleIndex

\* the retry limit tested before the failure is counted: one invocation more
retry_limit_late(retry_count, max_retries) ==
    retry_count > max_retries

\* lines 444-446: retry_count >= max_retries, after retry_count was incremented
retry_limit_reached(retry_count, max_retries) ==
    retry_count >= max_retries

\* the wrapper going on without asking the breaker
retry_gate_unchecked(breakers, context, t) ==
    [breakers |-> breakers, allowed |-> TRUE]

\* lines 422-424: circuit_breaker_context and not self.circuit_is_closed(...)
retry_gate(breakers, context, t) ==
    IF context = NoContext
    THEN [breakers |-> breakers, allowed |-> TRUE]
    ELSE circuit_is_closed(breakers, context, t)

\* what a step of the wrapper leaves alone
RetryFrame ==
    /\ UNCHANGED <<now, connection_health, pc, local, completed, ext_vars>>

\* the wrapper is entered: retry_count = 0 (lines 418-419)
RetryCall(max_retries, context) ==
    /\ retry.pc = "idle"
    /\ error_counts[ErrorKey(TrackContext(context), "ConnectionError")] < MaxErrors
    /\ retry' = [NoRetry EXCEPT !.pc = "check", !.max_retries = max_retries,
                                !.context = context]
    /\ last' = [NoCall EXCEPT !.op = "retry_call", !.context = context]
    /\ UNCHANGED <<circuit_breakers, error_counts, last_errors, streak>>
    /\ RetryFrame

\* the top of the loop: lines 422-424, the breaker is asked and a refusal raises
\* RuntimeError
RetryCheck ==
    /\ retry.pc = "check"
    /\ \E r \in {retry_gate(circuit_breakers, retry.context, now)} :
           /\ circuit_breakers' = r.breakers
           /\ streak' = IF retry.context = NoContext THEN streak
                        ELSE [streak EXCEPT ![retry.context] =
                                 StreakAfterAllow(@, circuit_breakers[retry.context],
                                                  r.breakers[retry.context])]
           /\ retry' = [retry EXCEPT
                           !.pc = IF r.allowed THEN "invoke" ELSE "idle",
                           !.checked = IF retry.context = NoContext THEN "none"
                                       ELSE circuit_breakers[retry.context].state,
                           !.allowed = r.allowed,
                           !.outcome = IF r.allowed THEN @ ELSE "circuit_open"]
    /\ last' = [NoCall EXCEPT !.op = "retry_check", !.context = retry.context]
    /\ UNCHANGED <<error_counts, last_errors>>
    /\ RetryFrame

\* lines 426-433: the function is invoked and returns; the success is recorded
RetrySuccess ==
    /\ retry.pc = "invoke"
    /\ retry' = [retry EXCEPT !.pc = "idle", !.invocations = @ + 1, !.outcome = "returned"]
    /\ IF retry.context = NoContext
       THEN UNCHANGED <<circuit_breakers, streak>>
       ELSE \E cbs \in {monitor_record_success(circuit_breakers, retry.context, now)} :
               /\ circuit_breakers' = cbs
               /\ streak' = [streak EXCEPT ![retry.context] =
                                StreakAfterSuccess(@, cbs[retry.context])]
    /\ last' = [NoCall EXCEPT !.op = "retry_invoke", !.context = retry.context]
    /\ UNCHANGED <<error_counts, last_errors>>
    /\ RetryFrame

\* lines 426-456: the function is invoked and raises; the error is tracked, then the
\* wrapper re-raises at the retry limit or sleeps and goes back to the top of the loop
RetryFailure ==
    /\ retry.pc = "invoke"
    /\ LET retry_count == retry.retry_count + 1
           context == TrackContext(retry.context)
           severity == IF retry_count < retry.max_retries THEN "medium" ELSE "high"
           em == track_error(Monitor, "ConnectionError", context, severity, now)
           limit == retry_limit_reached(retry_count, retry.max_retries)
       IN  /\ circuit_breakers' = em.circuit_breakers
           /\ error_counts' = em.error_counts
           /\ last_errors' = em.last_errors
           /\ streak' = IF context \in Contexts
                        THEN [streak EXCEPT ![context] =
                                 StreakAfterFailure(@, circuit_breakers[context], now)]
                        ELSE streak
           /\ retry' = [retry EXCEPT !.pc = IF limit THEN "idle" ELSE "check",
                                     !.retry_count = retry_count,
                                     !.invocations = @ + 1,
                                     !.tracked = @ + 1,
                                     !.outcome = IF limit THEN "raised" ELSE @,
                                     !.raised_at = IF limit THEN retry.invocations + 1 ELSE @]
    /\ last' = [NoCall EXCEPT !.op = "retry_invoke", !.context = retry.context]
    /\ RetryFrame

\* calls of one wrapped function, with and without a circuit_breaker_context, while
\* the clock advances
NextRetry ==
    \/ Tick
    \/ \E n \in 0 .. MaxRetries, context \in {NoContext, SharedContext} : RetryCall(n, context)
    \/ RetryCheck
    \/ RetrySuccess
    \/ RetryFailure

SpecRetry == InitRetry /\ [][NextRetry]_vars

(* ------------------------------------------------------------------ *)
(* Cache (src/utils/cache.py): memory tier, disk tier, expiry           *)
(* ------------------------------------------------------------------ *)
\* expire_in arguments: None (no expiry) or a number of seconds
ExpireIns == {None, TimeStep}

\* what get returns for a key it does not find (the default)
Miss == "miss"

\* a Python dict kept as the sequence of its (key, value) pairs, in insertion order
DictKeys(d) == {d[i][1] : i \in DOMAIN d}

DictGet(d, k) == d[CHOOSE i \in DOMAIN d : d[i][1] = k][2]

\* d[k] = v: an existing key keeps its place, a new one goes last
DictSet(d, k, v) ==
    IF k \in DictKeys(d)
    THEN [i \in DOMAIN d |-> IF d[i][1] = k THEN <<k, v>> ELSE d[i]]
    ELSE Append(d, <<k, v>>)

\* del d[k]
DictDel(d, k) == SelectSeq(d, LAMBDA e : e[1] # k)

\* the three stores of the cache as one value
TheCache == [memory |-> memory_cache, expiry |-> expiry_times, disk |-> disk_cache]

\* len(self._memory_cache)
MemorySize(memory) == Cardinality({k \in CacheKeys : memory[k] # Absent})

\* sorted(pairs, key = expiry): stable, earliest expiry first
RECURSIVE SortedByExpiry(_)
SortedByExpiry(pairs) ==
    IF pairs = <<>> THEN <<>>
    ELSE LET rest == SortedByExpiry(Tail(pairs))
             x == Head(pairs)
             \* x goes before the first element of rest that is not smaller than it
             before == SelectSeq(rest, LAMBDA e : e[2] < x[2])
             after == SelectSeq(rest, LAMBDA e : ~(e[2] < x[2]))
         IN  before \o <<x>> \o after

\* Cache._check_memory_cache_size
check_memory_cache_size(c, max_items) ==
    LET size == MemorySize(c.memory)
        items_to_remove == size - max_items
        sorted_keys == SortedByExpiry(c.expiry)
        n == IF items_to_remove < Len(sorted_keys) THEN items_to_remove ELSE Len(sorted_keys)
        removed == {sorted_keys[i][1] : i \in 1 .. n}
    IN  IF size > max_items
        THEN [c EXCEPT !.memory = [k \in CacheKeys |-> IF k \in removed THEN Absent ELSE @[k]],
                       !.expiry = SelectSeq(@, LAMBDA e : e[1] \notin removed)]
        ELSE c

\* time.time() + expire_in, None without expire_in
ExpiryOf(expire_in, t) == IF expire_in # None THEN t + expire_in ELSE None

\* Cache.set, the part under the lock: the memory tier
set_memory(c, key, value, expiry, max_items) ==
    LET c1 == [c EXCEPT !.memory[key] = value]
        c2 == IF expiry # None THEN [c1 EXCEPT !.expiry = DictSet(@, key, expiry)] ELSE c1
    IN  check_memory_cache_size(c2, max_items)

\* Cache.set, the part after the lock: the cache file
set_disk(c, key, value, expiry) ==
    [c EXCEPT !.disk[key] = [value |-> value, expiry |-> expiry]]

\* Cache.set at time t
cache_set(c, key, value, expire_in, t, use_disk, max_items) ==
    LET expiry == ExpiryOf(expire_in, t)
        c1 == set_memory(c, key, value, expiry, max_items)
    IN  IF use_disk THEN set_disk(c1, key, value, expiry) ELSE c1

\* a memory entry past its expiry (both dicts hold the key)
MemoryExpired(c, key, t) == key \in DictKeys(c.expiry) /\ DictGet(c.expiry, key) < t

\* a cache file past its expiry
DiskExpired(data, t) == data.expiry # None /\ data.expiry < t

\* get serving the memory tier without looking at the expiry
cache_get_unchecked(c, key, t, use_disk, max_items) ==
    IF c.memory[key] # Absent
    THEN [cache |-> c, ret |-> c.memory[key]]
    ELSE IF use_disk /\ c.disk[key].value # Absent
    THEN [cache |-> c, ret |-> c.disk[key].value]
    ELSE [cache |-> c, ret |-> Miss]

\* get answering from the cache file without storing the value in the memory tier
cache_get_no_promotion(c, key, t, use_disk, max_items) ==
    LET hit == c.memory[key] # Absent /\ ~MemoryExpired(c, key, t)
        c1 == IF c.memory[key] # Absent /\ MemoryExpired(c, key, t)
              THEN [c EXCEPT !.memory[key] = Absent, !.expiry = DictDel(@, key)]
              ELSE c
        data == c1.disk[key]
    IN  IF hit
        THEN [cache |-> c, ret |-> c.memory[key]]
        ELSE IF use_disk /\ data.value # Absent
        THEN IF DiskExpired(data, t)
             THEN [cache |-> [c1 EXCEPT !.disk[key] = NoData], ret |-> Miss]
             ELSE [cache |-> c1, ret |-> data.value]
        ELSE [cache |-> c1, ret |-> Miss]

\* Cache.get at time t: the cache afterwards and the value returned
cache_get(c, key, t, use_disk, max_items) ==
    LET hit == c.memory[key] # Absent /\ ~MemoryExpired(c, key, t)
        \* lines 60-63: an expired memory entry is dropped
        c1 == IF c.memory[key] # Absent /\ MemoryExpired(c, key, t)
              THEN [c EXCEPT !.memory[key] = Absent, !.expiry = DictDel(@, key)]
              ELSE c
        data == c1.disk[key]
    IN  IF hit
        THEN [cache |-> c, ret |-> c.memory[key]]
        ELSE IF use_disk /\ data.value # Absent
        THEN IF DiskExpired(data, t)
             THEN [cache |-> [c1 EXCEPT !.disk[key] = NoData], ret |-> Miss]
             ELSE LET c2 == [c1 EXCEPT !.memory[key] = data.value]
                      c3 == IF data.expiry # None
                            THEN [c2 EXCEPT !.expiry = DictSet(@, key, data.expiry)]
                            ELSE c2
                  IN  [cache |-> check_memory_cache_size(c3, max_items), ret |-> data.value]
        ELSE [cache |-> c1, ret |-> Miss]

\* Cache.delete: the cache afterwards and the value returned
cache_delete(c, key, use_disk) ==
    LET c1 == [c EXCEPT !.memory[key] = Absent, !.expiry = DictDel(@, key)]
        in_memory == c.memory[key] # Absent
        on_disk == use_disk /\ c.disk[key].value # Absent
    IN  [cache |-> IF use_disk THEN [c1 EXCEPT !.disk[key] = NoData] ELSE c1,
         ret |-> in_memory \/ on_disk]

\* Cache.clear
cache_clear(c, use_disk) ==
    [memory |-> [k \in CacheKeys |-> Absent],
     expiry |-> <<>>,
     disk |-> IF use_disk THEN [k \in CacheKeys |-> NoData] ELSE c.disk]

\* Cache.clean_expired, the part under the lock: the memory tier
clean_expired_memory(c, t) ==
    LET expired_keys == {k \in DictKeys(c.expiry) : DictGet(c.expiry, k) < t}
    IN  [c EXCEPT !.memory = [k \in CacheKeys |-> IF k \in expired_keys THEN Absent ELSE @[k]],
                  !.expiry = SelectSeq(@, LAMBDA e : e[1] \notin expired_keys)]

\* Cache.clean_expired at time t
clean_expired(c, t, use_disk) ==
    LET c1 == clean_expired_memory(c, t)
    IN  IF use_disk
        THEN [c1 EXCEPT !.disk = [k \in CacheKeys |->
                                    IF DiskExpired(@[k], t) THEN NoData ELSE @[k]]]
        ELSE c1

\* Cache(use_disk_cache, max_memory_items) built over the empty class-level dicts
InitCache ==
    /\ InitResilience
    /\ IdleStore
    /\ IdleIndex
    /\ EmptyCache
    /\ use_disk_cache \in BOOLEAN
    /\ max_memory_items \in 1 .. MaxMemoryItems

\* what a cache call leaves alone
CacheFrame ==
    /\ UNCHANGED <<now, resilience_vars, thread_vars, store_vars, index_vars>>
    /\ UNCHANGED <<use_disk_cache, max_memory_items, cache_pc, cache_local>>

StoreCache(c) ==
    /\ memory_cache' = c.memory
    /\ expiry_times' = c.expiry
    /\ disk_cache' = c.disk

\* cache.set(key, value, expire_in)
CacheSet(key, value, expire_in) ==
    /\ StoreCache(cache_set(TheCache, key, value, expire_in, now, use_disk_cache,
                            max_memory_items))
    /\ cache_sets' = [cache_sets EXCEPT ![key] =
                          [value |-> value, expiry |-> ExpiryOf(expire_in, now)]]
    /\ last' = [op |-> "cache_set", key |-> key, value |-> value, expire_in |-> expire_in]
    /\ CacheFrame

\* cache.get(key)
CacheGet(key) ==
    \E r \in {cache_get(TheCache, key, now, use_disk_cache, max_memory_items)} :
        /\ StoreCache(r.cache)
        /\ last' = [op |-> "cache_get", key |-> key, ret |-> r.ret,
                    after_set |-> IF last.op = "cache_set" /\ last.key = key
                                  THEN [value |-> last.value, expire_in |-> last.expire_in]
                                  ELSE [value |-> Absent, expire_in |-> None],
                    in_memory |-> memory_cache[key] # Absent,
                    disk |-> disk_cache[key],
                    size |-> MemorySize(memory_cache)]
        /\ UNCHANGED cache_sets
        /\ CacheFrame

\* cache.delete(key)
CacheDelete(key) ==
    \E r \in {cache_delete(TheCache, key, use_disk_cache)} :
        /\ StoreCache(r.cache)
        /\ cache_sets' = [cache_sets EXCEPT ![key] = NoData]
        /\ last' = [op |-> "cache_delete", key |-> key, ret |-> r.ret]
        /\ CacheFrame

\* cache.clear()
CacheClear ==
    /\ StoreCache(cache_clear(TheCache, use_disk_cache))
    /\ cache_sets' = [k \in CacheKeys |-> NoData]
    /\ last' = [op |-> "cache_clear"]
    /\ CacheFrame

\* cache.clean_expired(), as the scheduler's _clean_cache job calls it
CacheCleanExpired ==
    /\ StoreCache(clean_expired(TheCache, now, use_disk_cache))
    /\ last' = [op |-> "clean_expired"]
    /\ UNCHANGED cache_sets
    /\ CacheFrame

NextCache ==
    \/ Tick
    \/ \E k \in CacheKeys, v \in CacheValues, e \in ExpireIns : CacheSet(k, v, e)
    \/ \E k \in CacheKeys : CacheGet(k)
    \/ \E k \in CacheKeys : CacheDelete(k)
    \/ CacheClear
    \/ CacheCleanExpired

SpecCache == InitCache /\ [][NextCache]_vars

(* ------------------------------------------------------------------ *)
(* Cache.set and Cache.clean_expired run by two threads: the lock      *)
(* covers the memory tier only, every access to a cache file is a step *)
(* ------------------------------------------------------------------ *)
\* what a step of a cache thread leaves alone
SweepFrame ==
    /\ UNCHANGED <<now, last, resilience_vars, thread_vars, store_vars, index_vars>>
    /\ UNCHANGED <<use_disk_cache, max_memory_items>>

\* set: lines 115-126, the expiry and the memory tier under the lock
SetStart(key, value, expire_in) ==
    /\ cache_pc["setter"] = "idle"
    /\ LET expiry == ExpiryOf(expire_in, now)
           c == set_memory(TheCache, key, value, expiry, max_memory_items)
       IN  /\ memory_cache' = c.memory
           /\ expiry_times' = c.expiry
           /\ cache_local' = [cache_local EXCEPT !["setter"] =
                                 [NoCacheLocals EXCEPT !.key = key, !.value = value,
                                                       !.expiry = expiry]]
           /\ cache_sets' = [cache_sets EXCEPT ![key] = [value |-> value, expiry |-> expiry]]
    /\ cache_pc' = [cache_pc EXCEPT !["setter"] = IF use_disk_cache THEN "write" ELSE "idle"]
    /\ UNCHANGED disk_cache
    /\ SweepFrame

\* set: lines 146-147, the cache file is written and the call returns
SetWrite ==
    /\ cache_pc["setter"] = "write"
    /\ disk_cache' = set_disk(TheCache, cache_local["setter"].key, cache_local["setter"].value,
                              cache_local["setter"].expiry).disk
    /\ cache_pc' = [cache_pc EXCEPT !["setter"] = "idle"]
    /\ cache_local' = [cache_local EXCEPT !["setter"] = NoCacheLocals]
    /\ UNCHANGED <<memory_cache, expiry_times, cache_sets>>
    /\ SweepFrame

\* clean_expired: lines 235-247, current_time and the memory tier under the lock
SweepStart ==
    /\ cache_pc["sweeper"] = "idle"
    /\ LET c == clean_expired_memory(TheCache, now)
       IN  /\ memory_cache' = c.memory
           /\ expiry_times' = c.expiry
    /\ cache_local' = [cache_local EXCEPT !["sweeper"] =
                          [NoCacheLocals EXCEPT !.current_time = now]]
    /\ cache_pc' = [cache_pc EXCEPT !["sweeper"] = IF use_disk_cache THEN "glob" ELSE "idle"]
    /\ UNCHANGED <<disk_cache, cache_sets>>
    /\ SweepFrame

\* clean_expired: line 253, the cache files found by glob
SweepGlob ==
    /\ cache_pc["sweeper"] = "glob"
    /\ cache_local' = [cache_local EXCEPT !["sweeper"].todo =
                          {k \in CacheKeys : disk_cache[k].value # Absent}]
    /\ cache_pc' = [cache_pc EXCEPT !["sweeper"] = "next"]
    /\ UNCHANGED <<memory_cache, expiry_times, disk_cache, cache_sets>>
    /\ SweepFrame

\* clean_expired: lines 255-256, the next cache file is read (a file removed since the
\* glob raises, the handler of lines 264-271 finds nothing to remove); line 276 once
\* no file is left
SweepLoad ==
    /\ cache_pc["sweeper"] = "next"
    /\ IF cache_local["sweeper"].todo = {}
       THEN /\ cache_pc' = [cache_pc EXCEPT !["sweeper"] = "idle"]
            /\ cache_local' = [cache_local EXCEPT !["sweeper"] = NoCacheLocals]
       ELSE \E k \in cache_local["sweeper"].todo :
               /\ cache_local' = [cache_local EXCEPT !["sweeper"].todo = @ \ {k},
                                                     !["sweeper"].key = k,
                                                     !["sweeper"].data = disk_cache[k]]
               /\ cache_pc' = [cache_pc EXCEPT !["sweeper"] =
                                  IF disk_cache[k].value # Absent THEN "check" ELSE "next"]
    /\ UNCHANGED <<memory_cache, expiry_times, disk_cache, cache_sets>>
    /\ SweepFrame

\* clean_expired: lines 259-262, the file is removed if the data read from it expired
SweepCheck ==
    /\ cache_pc["sweeper"] = "check"
    /\ disk_cache' = IF DiskExpired(cache_local["sweeper"].data,
                                    cache_local["sweeper"].current_time)
                     THEN [disk_cache EXCEPT ![cache_local["sweeper"].key] = NoData]
                     ELSE disk_cache
    /\ cache_pc' = [cache_pc EXCEPT !["sweeper"] = "next"]
    /\ cache_local' = [cache_local EXCEPT !["sweeper"].key = Absent,
                                          !["sweeper"].data = NoData]
    /\ UNCHANGED <<memory_cache, expiry_times, cache_sets>>
    /\ SweepFrame

\* the clock, while the threads run
SweepTick ==
    /\ now < StartTime + MaxTicks * TimeStep
    /\ now' = now + TimeStep
    /\ UNCHANGED <<last, resilience_vars, thread_vars, store_vars, index_vars, cache_vars>>

NextSweep ==
    \/ SweepTick
    \/ \E k \in CacheKeys, v \in CacheValues, e \in ExpireIns : SetStart(k, v, e)
    \/ SetWrite
    \/ SweepStart
    \/ SweepGlob
    \/ SweepLoad
    \/ SweepCheck

SpecSweep == InitCache /\ [][NextSweep]_vars

(* ------------------------------------------------------------------ *)
(* Cache.set run by several callers at once: each call writes the      *)
(* memory tier under the lock and its cache file after releasing it    *)
(* ------------------------------------------------------------------ *)
\* Cache(use_disk_cache, max_memory_items) over the empty dicts, no caller inside set
InitSetters ==
    /\ InitResilience
    /\ IdleStore
    /\ IdleIndex
    /\ memory_cache = [k \in CacheKeys |-> Absent]
    /\ expiry_times = <<>>
    /\ disk_cache = [k \in CacheKeys |-> NoData]
    /\ cache_pc = [t \in Callers |-> "idle"]
    /\ cache_local = [t \in Callers |-> NoCacheLocals]
    /\ cache_sets = [k \in CacheKeys |-> NoData]
    /\ use_disk_cache \in BOOLEAN
    /\ max_memory_items \in 1 .. MaxMemoryItems

\* set by caller t: lines 115-126, the expiry and the memory tier under the lock
CallerSetStart(t, key, value, expire_in) ==
    /\ cache_pc[t] = "idle"
    /\ LET expiry == ExpiryOf(expire_in, now)
           c == set_memory(TheCache, key, value, expiry, max_memory_items)
       IN  /\ memory_cache' = c.memory
           /\ expiry_times' = c.expiry
           /\ cache_local' = [cache_local EXCEPT ![t] =
                                 [NoCacheLocals EXCEPT !.key = key, !.value = value,
                                                       !.expiry = expiry]]
           /\ cache_sets' = [cache_sets EXCEPT ![key] = [value |-> value, expiry |-> expiry]]
    /\ cache_pc' = [cache_pc EXCEPT ![t] = IF use_disk_cache THEN "write" ELSE "idle"]
    /\ UNCHANGED disk_cache
    /\ SweepFrame

\* set by caller t: lines 146-147, the cache file is written and the call returns
CallerSetWrite(t) ==
    /\ cache_pc[t] = "write"
    /\ disk_cache' = set_disk(TheCache, cache_local[t].key, cache_local[t].value,
                              cache_local[t].expiry).disk
    /\ cache_pc' = [cache_pc EXCEPT ![t] = "idle"]
    /\ cache_local' = [cache_local EXCEPT ![t] = NoCacheLocals]
    /\ UNCHANGED <<memory_cache, expiry_times, cache_sets>>
    /\ SweepFrame

NextSetters ==
    \/ \E t \in Callers, k \in CacheKeys, v \in CacheValues, e \in ExpireIns :
           CallerSetStart(t, k, v, e)
    \/ \E t \in Callers : CallerSetWrite(t)

SpecSetters == InitSetters /\ [][NextSetters]_vars

(* ------------------------------------------------------------------ *)
(* Cache.get and Cache.delete run by two threads: each takes the lock  *)
(* for the memory tier only and reads or removes the cache file        *)
(* outside it                                                          *)
(* ------------------------------------------------------------------ *)
\* the thread running Cache.get and the thread running Cache.delete
DeleteThreads == {"getter", "deleter"}

\* Cache(use_disk_cache=True, max_memory_items) over the empty dicts, no call in progress
InitDelete ==
    /\ InitResilience
    /\ IdleStore
    /\ IdleIndex
    /\ memory_cache = [k \in CacheKeys |-> Absent]
    /\ expiry_times = <<>>
    /\ disk_cache = [k \in CacheKeys |-> NoData]
    /\ cache_pc = [t \in DeleteThreads |-> "idle"]
    /\ cache_local = [t \in DeleteThreads |-> NoCacheLocals]
    /\ cache_sets = [k \in CacheKeys |-> NoData]
    /\ use_disk_cache = TRUE
    /\ max_memory_items \in 1 .. MaxMemoryItems

\* what a step of get or delete leaves alone
DeleteFrame ==
    /\ UNCHANGED <<now, resilience_vars, thread_vars, store_vars, index_vars>>
    /\ UNCHANGED <<use_disk_cache, max_memory_items>>

\* Cache.get, lines 57-66 under the lock: an expired memory entry is dropped
get_memory(c, key, t) ==
    IF c.memory[key] # Absent /\ MemoryExpired(c, key, t)
    THEN [c EXCEPT !.memory[key] = Absent, !.expiry = DictDel(@, key)]
    ELSE c

\* Cache.get, lines 87-93 under the lock: the data read from the cache file is stored
get_promote(c, key, data, max_items) ==
    LET c2 == [c EXCEPT !.memory[key] = data.value]
        c3 == IF data.expiry # None
              THEN [c2 EXCEPT !.expiry = DictSet(@, key, data.expiry)]
              ELSE c2
    IN  check_memory_cache_size(c3, max_items)

\* cache.set(key, value, expire_in) while no get and no delete is in progress
QuietSet(key, value, expire_in) ==
    /\ \A t \in DeleteThreads : cache_pc[t] = "idle"
    /\ CacheSet(key, value, expire_in)

\* get: lines 57-66, the memory tier under the lock; a hit returns. The call is on
\* record with whether the key was deleted, and not set since, when it started
GetStart(key) ==
    /\ cache_pc["getter"] = "idle"
    /\ LET hit == memory_cache[key] # Absent /\ ~MemoryExpired(TheCache, key, now)
           c == get_memory(TheCache, key, now)
           after_delete == cache_sets[key] = NoData /\ cache_pc["deleter"] = "idle"
       IN  /\ memory_cache' = c.memory
           /\ expiry_times' = c.expiry
           /\ cache_pc' = [cache_pc EXCEPT !["getter"] = IF hit THEN "idle" ELSE "read"]
           /\ cache_local' = [cache_local EXCEPT !["getter"] =
                                 IF hit THEN NoCacheLocals
                                 ELSE [NoCacheLocals EXCEPT !.key = key]]
           /\ last' = [op |-> IF hit THEN "cache_get" ELSE "cache_get_start", key |-> key,
                       ret |-> IF hit THEN memory_cache[key] ELSE Miss,
                       after_delete |-> after_delete]
    /\ UNCHANGED <<disk_cache, cache_sets>>
    /\ DeleteFrame

\* get: lines 69-78, the cache file is looked up and read; without a file the call
\* returns the default
GetRead ==
    /\ cache_pc["getter"] = "read"
    /\ LET data == disk_cache[cache_local["getter"].key]
       IN  IF data.value = Absent
           THEN /\ cache_pc' = [cache_pc EXCEPT !["getter"] = "idle"]
                /\ cache_local' = [cache_local EXCEPT !["getter"] = NoCacheLocals]
                /\ last' = [last EXCEPT !.op = "cache_get", !.ret = Miss]
           ELSE /\ cache_pc' = [cache_pc EXCEPT !["getter"] = "promote"]
                /\ cache_local' = [cache_local EXCEPT !["getter"].data = data]
                /\ UNCHANGED last
    /\ UNCHANGED <<memory_cache, expiry_times, disk_cache, cache_sets>>
    /\ DeleteFrame

\* get: lines 81-95, expired data removes the file (a file already gone raises and the
\* handler of lines 97-98 leads to the default as well); valid data is stored in the
\* memory tier under the lock and returned
GetPromote ==
    /\ cache_pc["getter"] = "promote"
    /\ LET key == cache_local["getter"].key
           data == cache_local["getter"].data
           c == get_promote(TheCache, key, data, max_memory_items)
       IN  IF DiskExpired(data, now)
           THEN /\ disk_cache' = [disk_cache EXCEPT ![key] = NoData]
                /\ last' = [last EXCEPT !.op = "cache_get", !.ret = Miss]
                /\ UNCHANGED <<memory_cache, expiry_times>>
           ELSE /\ memory_cache' = c.memory
                /\ expiry_times' = c.expiry
                /\ last' = [last EXCEPT !.op = "cache_get", !.ret = data.value]
                /\ UNCHANGED disk_cache
    /\ cache_pc' = [cache_pc EXCEPT !["getter"] = "idle"]
    /\ cache_local' = [cache_local EXCEPT !["getter"] = NoCacheLocals]
    /\ UNCHANGED cache_sets
    /\ DeleteFrame

\* delete: lines 170-176, the memory tier under the lock
DeleteMemory(key) ==
    /\ cache_pc["deleter"] = "idle"
    /\ memory_cache' = [memory_cache EXCEPT ![key] = Absent]
    /\ expiry_times' = DictDel(expiry_times, key)
    /\ cache_pc' = [cache_pc EXCEPT !["deleter"] = "remove"]
    /\ cache_local' = [cache_local EXCEPT !["deleter"] = [NoCacheLocals EXCEPT !.key = key]]
    /\ UNCHANGED <<disk_cache, cache_sets, last>>
    /\ DeleteFrame

\* delete: lines 179-192, the cache file is removed and the call returns
DeleteFile ==
    /\ cache_pc["deleter"] = "remove"
    /\ disk_cache' = [disk_cache EXCEPT ![cache_local["deleter"].key] = NoData]
    /\ cache_sets' = [cache_sets EXCEPT ![cache_local["deleter"].key] = NoData]
    /\ cache_pc' = [cache_pc EXCEPT !["deleter"] = "idle"]
    /\ cache_local' = [cache_local EXCEPT !["deleter"] = NoCacheLocals]
    /\ UNCHANGED <<memory_cache, expiry_times, last>>
    /\ DeleteFrame

NextDelete ==
    \/ SweepTick
    \/ \E k \in CacheKeys, v \in CacheValues, e \in ExpireIns : QuietSet(k, v, e)
    \/ \E k \in CacheKeys : GetStart(k)
    \/ GetRead
    \/ GetPromote
    \/ \E k \in CacheKeys : DeleteMemory(k)
    \/ DeleteFile

SpecDelete == InitDelete /\ [][NextDelete]_vars

(* ------------------------------------------------------------------ *)
(* The local fallback store: supabase_fallback.py                      *)
(* ------------------------------------------------------------------ *)
\* PRAGMA table_info(videos): the columns of the table kept by the model, in order
Columns == <<"id", "title">>

StoreIds == {"1", "2"}

StoreTitles == {"x", "y"}

\* the dicts given to insert
Records == [id : StoreIds, title : StoreTitles]

\* select_columns = "*"
Star == <<"*">>

\* TableQueryBuilder.reset_query
ResetQuery == [select_columns |-> Star, where_clauses |-> <<>>]

\* CREATE TABLE videos replacing the table the file already holds
initialize_database_recreates(file) ==
    [created |-> TRUE, rows |-> <<>>]

\* LocalSupabaseFallback._initialize_database: CREATE TABLE IF NOT EXISTS videos
initialize_database(file) ==
    IF file.created THEN file ELSE [created |-> TRUE, rows |-> <<>>]

\* LocalSupabaseFallback.__init__ and table("videos"): the path, and a builder as constructed
NewClient == [db_path |-> SupabaseDbPath, videos |-> ResetQuery]

\* TableQueryBuilder.eq
builder_eq(builder, column, value) ==
    [builder EXCEPT !.where_clauses = Append(@, <<column, value>>)]

\* WHERE c1 = ? AND c2 = ? ... on one row
Matches(row, where_clauses) ==
    \A i \in 1 .. Len(where_clauses) : row[where_clauses[i][1]] = where_clauses[i][2]

\* _build_query and _execute_query: the rows of the SELECT, as tuples, in rowid order
build_query(rows, builder) ==
    LET cols == IF builder.select_columns = Star THEN Columns ELSE builder.select_columns
        hits == SelectSeq(rows, LAMBDA r : Matches(r, builder.where_clauses))
    IN  [n \in 1 .. Len(hits) |-> [i \in 1 .. Len(cols) |-> hits[n][cols[i]]]]

\* the loop of execute: value i of a result row goes under the name of column i of the table
RowDict(row) ==
    LET named == {i \in 1 .. Len(Columns) : i <= Len(row)}
    IN  [c \in {Columns[i] : i \in named} |-> row[CHOOSE i \in named : Columns[i] = c]]

\* TableQueryBuilder.execute: the response's data and the builder afterwards
builder_execute(file, builder) ==
    LET results == build_query(file.rows, builder)
    IN  IF ~file.created
        THEN [data |-> <<>>, builder |-> builder]
        ELSE [data |-> [n \in 1 .. Len(results) |-> RowDict(results[n])],
              builder |-> ResetQuery]

\* TableQueryBuilder.insert: the file and the response's data afterwards
builder_insert(file, data) ==
    IF ~file.created \/ \E n \in 1 .. Len(file.rows) : file.rows[n].id = data.id
    THEN [file |-> file, data |-> <<>>, error |-> "none"]
    ELSE [file |-> [file EXCEPT !.rows = Append(@, data)], data |-> <<data>>,
          error |-> "none"]

\* the dicts given to update: a new title
Patches == [title : StoreTitles]

\* TableQueryBuilder.update: the file afterwards (the statement runs inside update, with
\* the predicates the builder holds at that moment, and the builder keeps them)
builder_update(file, builder, patch) ==
    [file EXCEPT !.rows = [n \in 1 .. Len(@) |->
                              IF Matches(@[n], builder.where_clauses)
                              THEN [@[n] EXCEPT !.title = patch.title]
                              ELSE @[n]]]

\* TableQueryBuilder.delete: the file afterwards (the builder keeps its predicates)
builder_delete(file, builder) ==
    [file EXCEPT !.rows = SelectSeq(@, LAMBDA r : ~Matches(r, builder.where_clauses))]

\* what a call on a fallback client leaves alone
StoreFrame ==
    /\ UNCHANGED <<now, resilience_vars, thread_vars, cache_vars, index_vars>>

\* get_supabase_client(use_fallback=True), the primary probe failing and no backup
\* credentials: the caller receives a new LocalSupabaseFallback() when the ladder
\* ends on the local tier
StoreGetClient ==
    /\ Len(clients) < MaxClients
    /\ GetClientCall("supabase", TRUE, FALSE, {}, FALSE, TRUE)
    /\ IF last'.ret = "local_fallback"
       THEN /\ db_files' = [db_files EXCEPT ![NewClient.db_path] = initialize_database(@)]
            /\ clients' = Append(clients, NewClient)
            /\ asked' = Append(asked, <<>>)
       ELSE UNCHANGED <<db_files, clients, asked>>
    /\ UNCHANGED <<written, cache_vars, index_vars>>

\* client.table("videos").insert(data), by a caller that has no query under way
StoreInsert(c, data) ==
    /\ c \in DOMAIN clients
    /\ asked[c] = <<>>
    /\ \E r \in {builder_insert(db_files[clients[c].db_path], data)} :
        /\ db_files' = [db_files EXCEPT ![clients[c].db_path] = r.file]
        /\ written' = IF r.data = <<>> THEN written
                      ELSE written \cup {[record |-> data, client |-> c]}
        /\ last' = [op |-> "insert", client |-> c, record |-> data, data |-> r.data,
                    error |-> r.error, raised |-> FALSE,
                    rejected |-> r.file = db_files[clients[c].db_path]]
        /\ UNCHANGED <<clients, asked>>
        /\ StoreFrame

\* client.table("videos").eq(column, value)
StoreEqCall(c, column, value) ==
    /\ c \in DOMAIN clients
    /\ clients' = [clients EXCEPT ![c].videos = builder_eq(@, column, value)]
    /\ asked' = [asked EXCEPT ![c] = Append(@, <<column, value>>)]
    /\ last' = [op |-> "eq", client |-> c]
    /\ UNCHANGED <<db_files, written>>
    /\ StoreFrame

\* client.table("videos").eq(column, value), on a builder that holds no predicate
StoreEq(c, column, value) ==
    /\ c \in DOMAIN clients
    /\ clients[c].videos.where_clauses = <<>>
    /\ StoreEqCall(c, column, value)

\* client.table("videos").execute()
StoreExecute(c) ==
    /\ c \in DOMAIN clients
    /\ \E r \in {builder_execute(db_files[clients[c].db_path], clients[c].videos)} :
        /\ clients' = [clients EXCEPT ![c].videos = r.builder]
        /\ asked' = [asked EXCEPT ![c] = <<>>]
        /\ last' = [op |-> "execute", client |-> c, query |-> clients[c].videos,
                    asked |-> asked[c], data |-> r.data]
        /\ UNCHANGED <<db_files, written>>
        /\ StoreFrame

\* client.table("videos").delete(), after the caller's eq(...) calls
StoreDelete(c) ==
    /\ c \in DOMAIN clients
    /\ db_files' = [db_files EXCEPT ![clients[c].db_path] =
                        builder_delete(@, clients[c].videos)]
    /\ written' = {w \in written : ~Matches(w.record, asked[c])}
    /\ asked' = [asked EXCEPT ![c] = <<>>]
    /\ last' = [op |-> "delete", client |-> c]
    /\ UNCHANGED clients
    /\ StoreFrame

\* the rows on record after an update of the rows that satisfy the caller's predicates
WrittenAfterUpdate(predicates, patch) ==
    {IF Matches(w.record, predicates) THEN [w EXCEPT !.record.title = patch.title] ELSE w :
        w \in written}

\* client.table("videos").eq(...).update(patch): the call order of the fallback's builder
StoreUpdate(c, patch) ==
    /\ c \in DOMAIN clients
    /\ db_files' = [db_files EXCEPT ![clients[c].db_path] =
                        builder_update(@, clients[c].videos, patch)]
    /\ written' = WrittenAfterUpdate(asked[c], patch)
    /\ asked' = [asked EXCEPT ![c] = <<>>]
    /\ last' = [op |-> "update", client |-> c, order |-> "eq_first", asked |-> asked[c],
                before |-> db_files[clients[c].db_path].rows, raised |-> FALSE]
    /\ UNCHANGED clients
    /\ StoreFrame

\* client.table("videos").update(patch).eq(column, value).execute(): the call order used
\* against the primary client. update runs its statement at once and returns a
\* FallbackResponse, which has no eq: the chain ends in an AttributeError
StoreUpdateThenEq(c, patch, column, value) ==
    /\ c \in DOMAIN clients
    /\ asked[c] = <<>>
    /\ db_files' = [db_files EXCEPT ![clients[c].db_path] =
                        builder_update(@, clients[c].videos, patch)]
    /\ written' = WrittenAfterUpdate(<<<<column, value>>>>, patch)
    /\ last' = [op |-> "update", client |-> c, order |-> "update_first",
                asked |-> <<<<column, value>>>>,
                before |-> db_files[clients[c].db_path].rows, raised |-> TRUE]
    /\ UNCHANGED <<clients, asked>>
    /\ StoreFrame

\* callers that were handed the local fallback and use it
NextStore ==
    \/ StoreGetClient
    \/ \E c \in 1 .. MaxClients, data \in Records : StoreInsert(c, data)
    \/ \E c \in 1 .. MaxClients, v \in StoreIds : StoreEq(c, "id", v)
    \/ \E c \in 1 .. MaxClients : StoreExecute(c)
    \/ \E c \in 1 .. MaxClients : StoreDelete(c)

SpecStore == Init /\ [][NextStore]_vars

\* one caller that was handed a LocalSupabaseFallback() over a new database file
InitBuilder ==
    /\ InitResilience
    /\ IdleCache
    /\ IdleIndex
    /\ db_files = [p \in {SupabaseDbPath} |-> initialize_database(NoTable)]
    /\ clients = <<NewClient>>
    /\ written = {}
    /\ asked = <<<<>>>>

StoreColumns == {"id", "title"}

ColumnValues(column) == IF column = "id" THEN StoreIds ELSE StoreTitles

\* eq on a builder that may still hold predicates
BuilderEq(column, value) ==
    /\ Len(clients[1].videos.where_clauses) < MaxWhere
    /\ StoreEqCall(1, column, value)

\* the query builder of one table of one client, driven through its whole surface
NextBuilder ==
    \/ \E data \in Records : StoreInsert(1, data)
    \/ \E column \in StoreColumns : \E value \in ColumnValues(column) : BuilderEq(column, value)
    \/ StoreExecute(1)
    \/ StoreDelete(1)
    \/ \E patch \in Patches : StoreUpdate(1, patch)
    \/ \E patch \in Patches, value \in StoreIds : StoreUpdateThenEq(1, patch, "id", value)

SpecBuilder == InitBuilder /\ [][NextBuilder]_vars

\* the column lists given to select
SelectLists == {Star, <<"id">>, <<"title">>, <<"title", "id">>}

\* TableQueryBuilder.select
builder_select(builder, columns) ==
    [builder EXCEPT !.select_columns = columns]

\* client.table("videos").select(columns)
StoreSelect(c, columns) ==
    /\ c \in DOMAIN clients
    /\ clients' = [clients EXCEPT ![c].videos = builder_select(@, columns)]
    /\ last' = [op |-> "select", client |-> c]
    /\ UNCHANGED <<db_files, written, asked>>
    /\ StoreFrame

\* one caller running select(columns).eq("id", v).execute() queries over inserted rows
NextSelect ==
    \/ \E data \in Records : StoreInsert(1, data)
    \/ \E columns \in SelectLists : StoreSelect(1, columns)
    \/ \E v \in StoreIds : StoreEq(1, "id", v)
    \/ StoreExecute(1)

SpecSelect == InitBuilder /\ [][NextSelect]_vars

(* ------------------------------------------------------------------ *)
(* The local fallback index: pinecone_fallback.py                      *)
(* ------------------------------------------------------------------ *)
\* the embeddings stored and queried: two dimensions are enough to tell the scores apart
VectorValues == {<<1, 0>>, <<0, 1>>}

\* upsert(vectors, namespace="") and query(..., namespace=""): the default namespace
DefaultNamespace == ""

\* a metadata dict or a filter dict: key -> value, Absent for a key the dict does not hold
MetaDicts == [MetaKeys -> {Absent, "a"}]

FilterDicts == [MetaKeys -> {Absent, "a", "b"}]

\* LocalPineconeFallback._save_vector: INSERT OR REPLACE drops the row of the id and
\* adds the new row at the end of the table
save_vector(table, id, values, metadata, namespace) ==
    Append(SelectSeq(table, LAMBDA r : r.id # id),
           [id |-> id, values |-> values, metadata |-> metadata, namespace |-> namespace])

\* LocalPineconeFallback._get_all_vectors: a namespace that is empty selects every row
get_all_vectors(table, namespace) ==
    IF namespace # ""
    THEN SelectSeq(table, LAMBDA r : r.namespace = namespace)
    ELSE table

Dot(a, b) == a[1] * b[1] + a[2] * b[2]

\* np.linalg.norm, exact on the vectors of the model
Norm(a) == CHOOSE n \in 0 .. Dot(a, a) : n * n = Dot(a, a)

\* LocalPineconeFallback._cosine_similarity
cosine_similarity(a, b) ==
    IF Norm(a) = 0 \/ Norm(b) = 0 THEN 0 ELSE Dot(a, b) \div (Norm(a) * Norm(b))

\* LocalPineconeIndex._match_filter
match_filter(metadata, filter) ==
    \A key \in {k \in MetaKeys : filter[k] # Absent} :
        metadata[key] # Absent /\ metadata[key] = filter[key]

\* "if filter": a dict without keys is falsy
Truthy(filter) == \E k \in MetaKeys : filter[k] # Absent

\* a stable sort by descending score, as an insertion sort: an element goes behind the
\* elements that must stay in front of it (with ties_first, in front of its ties)
RECURSIVE SortWith(_, _)
SortWith(similarities, ties_first) ==
    IF Len(similarities) = 0 THEN <<>>
    ELSE LET n == Len(similarities)
             x == similarities[n]
             s == SortWith(SubSeq(similarities, 1, n - 1), ties_first)
             k == Cardinality({i \in 1 .. Len(s) :
                                  IF ties_first THEN s[i].score > x.score
                                  ELSE s[i].score >= x.score})
         IN  SubSeq(s, 1, k) \o <<x>> \o SubSeq(s, k + 1, Len(s))

\* an ascending sort, reversed afterwards: equal scores come out in reverse order
sort_similarities_reversed(similarities) == SortWith(similarities, TRUE)

\* similarities.sort(key=lambda x: x[1], reverse=True)
sort_similarities(similarities) == SortWith(similarities, FALSE)

\* LocalPineconeIndex.query: the matches of the response
index_query(table, vector, top_k, namespace, filter) ==
    LET all_vectors == get_all_vectors(table, namespace)
        kept == SelectSeq(all_vectors,
                          LAMBDA r : ~(Truthy(filter) /\ ~match_filter(r.metadata, filter)))
        similarities == [n \in 1 .. Len(kept) |->
                            [id |-> kept[n].id,
                             score |-> cosine_similarity(vector, kept[n].values),
                             metadata |-> kept[n].metadata]]
        sorted == sort_similarities(similarities)
    IN  SubSeq(sorted, 1, IF top_k < Len(sorted) THEN top_k ELSE Len(sorted))

\* what a call on the index leaves alone
IndexFrame ==
    /\ UNCHANGED <<now, resilience_vars, thread_vars, store_vars, cache_vars>>

\* an entry of vector_cache: the tuple (vector, metadata, namespace)
Cached(values, metadata, namespace) ==
    [cached |-> TRUE, values |-> values, metadata |-> metadata, namespace |-> namespace]

\* _get_all_vectors, lines 273-280: every row returned is cached under the namespace
\* the caller asked for
cache_all_vectors(cache, rows, namespace) ==
    [id \in VectorIds |->
        IF \E n \in 1 .. Len(rows) : rows[n].id = id
        THEN LET r == rows[CHOOSE n \in 1 .. Len(rows) : rows[n].id = id]
             IN  Cached(r.values, r.metadata, namespace)
        ELSE cache[id]]

\* LocalPineconeFallback._get_vector: the tuple returned (NotCached for None) and the
\* cache afterwards
get_vector(table, cache, id) ==
    IF cache[id].cached
    THEN [result |-> cache[id], cache |-> cache]
    ELSE IF \E n \in 1 .. Len(table) : table[n].id = id
    THEN LET r == table[CHOOSE n \in 1 .. Len(table) : table[n].id = id]
             found == Cached(r.values, r.metadata, r.namespace)
         IN  [result |-> found, cache |-> [cache EXCEPT ![id] = found]]
    ELSE [result |-> NotCached, cache |-> cache]

\* LocalPineconeIndex.fetch: the "vectors" of the response, id -> values and metadata
\* (NotCached for an id the response does not hold), and the cache afterwards
index_fetch(table, cache, ids, namespace) ==
    LET got(id) == get_vector(table, cache, id)
        kept(id) == /\ id \in ids
                    /\ got(id).result.cached
                    /\ ~(namespace # "" /\ got(id).result.namespace # namespace)
    IN  [vectors |-> [id \in VectorIds |->
                         IF kept(id)
                         THEN [got(id).result EXCEPT !.namespace = Absent]
                         ELSE NotCached],
         cache |-> [id \in VectorIds |-> IF id \in ids THEN got(id).cache[id] ELSE cache[id]]]

\* LocalPineconeFallback._delete_vector: the table afterwards
delete_vector(table, id) == SelectSeq(table, LAMBDA r : r.id # id)

\* index.upsert([{"id": id, "values": values, "metadata": metadata}], namespace) on the
\* index of instance i
ClientUpsert(i, id, values, metadata, namespace) ==
    /\ vectors_table' = save_vector(vectors_table, id, values, metadata, namespace)
    /\ vector_caches' = [vector_caches EXCEPT ![i][id] = Cached(values, metadata, namespace)]
    /\ last' = [op |-> "upsert", id |-> id]
    /\ IndexFrame

\* index.query(vector, top_k, namespace, filter=filter) on the index of instance i
ClientQuery(i, vector, top_k, namespace, filter) ==
    /\ last' = [op |-> "query", vector |-> vector, top_k |-> top_k,
                namespace |-> namespace, filter |-> filter,
                matches |-> index_query(vectors_table, vector, top_k, namespace, filter)]
    /\ vector_caches' = [vector_caches EXCEPT ![i] =
                             cache_all_vectors(@, get_all_vectors(vectors_table, namespace),
                                               namespace)]
    /\ UNCHANGED vectors_table
    /\ IndexFrame

\* index.fetch(ids, namespace) on the index of instance i
ClientFetch(i, ids, namespace) ==
    \E r \in {index_fetch(vectors_table, vector_caches[i], ids, namespace)} :
        /\ vector_caches' = [vector_caches EXCEPT ![i] = r.cache]
        /\ last' = [op |-> "fetch", ids |-> ids, namespace |-> namespace,
                    vectors |-> r.vectors]
        /\ UNCHANGED vectors_table
        /\ IndexFrame

\* index.delete(ids=[id]) on the index of instance i
ClientDelete(i, id) ==
    /\ vectors_table' = delete_vector(vectors_table, id)
    /\ vector_caches' = [vector_caches EXCEPT ![i][id] = NotCached]
    /\ last' = [op |-> "delete", id |-> id]
    /\ IndexFrame

\* index.delete(delete_all=True, namespace=namespace) on the index of instance i
ClientDeleteAll(i, namespace) ==
    /\ vectors_table' = IF namespace # ""
                        THEN SelectSeq(vectors_table, LAMBDA r : r.namespace # namespace)
                        ELSE <<>>
    /\ vector_caches' = [vector_caches EXCEPT ![i] = EmptyVectorCache]
    /\ last' = [op |-> "delete_all", namespace |-> namespace]
    /\ IndexFrame

\* upsert through the one instance of the single-caller specifications
IndexUpsert(id, values, metadata, namespace) ==
    ClientUpsert(FirstClient, id, values, metadata, namespace)

\* query through the one instance of the single-caller specifications
IndexQuery(vector, top_k, namespace, filter) ==
    ClientQuery(FirstClient, vector, top_k, namespace, filter)

\* upserts and queries in the default namespace
NextIndex ==
    \/ \E id \in VectorIds, values \in VectorValues, metadata \in MetaDicts :
           IndexUpsert(id, values, metadata, DefaultNamespace)
    \/ \E vector \in VectorValues, top_k \in 1 .. MaxTopK, filter \in FilterDicts :
           IndexQuery(vector, top_k, DefaultNamespace, filter)

SpecIndex == Init /\ [][NextIndex]_vars

\* the namespaces upserted into and queried: the default one and a named one
Namespaces == {DefaultNamespace, "ns1"}

\* upserts and queries across namespaces, without metadata or filter
NextNamespace ==
    \/ \E id \in VectorIds, values \in VectorValues, namespace \in Namespaces :
           IndexUpsert(id, values, NoMeta, namespace)
    \/ \E vector \in VectorValues, top_k \in 1 .. MaxTopK, namespace \in Namespaces :
           IndexQuery(vector, top_k, namespace, NoMeta)

SpecNamespace == Init /\ [][NextNamespace]_vars

\* the ids the instances share in SpecFetch
FetchIds == {"A", "B"}

\* two LocalPineconeFallback instances over one database file: upsert, delete, query
\* and fetch through either of them
NextFetch ==
    \/ \E i \in IndexClients, id \in FetchIds, values \in VectorValues, namespace \in Namespaces :
           ClientUpsert(i, id, values, NoMeta, namespace)
    \/ \E i \in IndexClients, namespace \in Namespaces :
           ClientQuery(i, <<1, 0>>, MaxTopK, namespace, NoMeta)
    \/ \E i \in IndexClients, id \in FetchIds, namespace \in Namespaces :
           ClientFetch(i, {id}, namespace)
    \/ \E i \in IndexClients, id \in FetchIds : ClientDelete(i, id)
    \/ \E i \in IndexClients, namespace \in Namespaces : ClientDeleteAll(i, namespace)

SpecFetch == Init /\ [][NextFetch]_vars

(* ------------------------------------------------------------------ *)
(* Properties of the circuit breaker                                   *)
(* ------------------------------------------------------------------ *)
\* the breaker of the last call, before and after it
Before == last.breaker

After == circuit_breakers[last.context]

\* OPEN and recovery_timeout not yet elapsed since the last failure, at the time of the call
Blocked(b) == b.state = "open" /\ now - b.last_failure_time <= b.recovery_timeout

\* C1: in a run of record_failure calls that starts on a CLOSED breaker with
\* failure_count 0 (no record_success in between, every gap within reset_timeout) the
\* breaker is OPEN from the call that brings the count to failure_threshold on, and
\* CLOSED after every earlier call.
C1_OpensExactlyAtThreshold ==
    \A c \in Contexts :
        streak[c] >= 0 =>
            /\ circuit_breakers[c].failure_count = streak[c]
            /\ circuit_breakers[c].state =
                  IF streak[c] >= circuit_breakers[c].failure_threshold
                  THEN "open" ELSE "closed"

\* the call that brought the count to the threshold has just opened the breaker
C1_Witness ==
    \E c \in Contexts :
        /\ last.op = "track_error" /\ last.context = c
        /\ streak[c] = circuit_breakers[c].failure_threshold
        /\ Before.state = "closed"
        /\ circuit_breakers[c].state = "open"

C3_SingleProbePerWindow ==
    last.op = "circuit_is_closed" =>
        /\ (Before.state = "open" /\ ~Blocked(Before)) =>
              (last.ret = "true" /\ After.state = "half_open")
        /\ Before.state = "half_open" => last.ret = "false"

\* C4: record_success on a HALF_OPEN breaker sets failure_count to 0 and the state to
\* CLOSED, whatever the count was.
C4_SuccessInHalfOpenCloses ==
    (last.op = "record_success" /\ Before.state = "half_open") =>
        (After.state = "closed" /\ After.failure_count = 0)

\* a success on a HALF_OPEN breaker whose count had passed the threshold
C4_Witness ==
    /\ last.op = "record_success"
    /\ Before.state = "half_open"
    /\ Before.failure_count > Before.failure_threshold
    /\ After.state = "closed"

\* C5 as claimed: when every record_failure call on the shared breaker has returned,
\* failure_count has grown by the number of calls, and a count at or above the
\* threshold has opened the breaker (HALF_OPEN only through an allow_request since).
C5_NoLostUpdate ==
    (\A i \in Callers : pc[i] = "idle") =>
        /\ Shared.failure_count = completed
        /\ Shared.failure_count >= Shared.failure_threshold => Shared.state # "closed"

(* ------------------------------------------------------------------ *)
(* Properties of the failover ladder                                   *)
(* ------------------------------------------------------------------ *)
Called == last.op = "get_client"

Has(e) == \E i \in DOMAIN last.trace : last.trace[i] = e

\* position of step e among the steps of the last call (0: not taken)
Pos(e) == IF Has(e) THEN CHOOSE i \in DOMAIN last.trace : last.trace[i] = e ELSE 0

\* step a was taken, and before step b
Precedes(a, b) == Has(a) /\ Has(b) /\ Pos(a) < Pos(b)

\* C6: with use_fallback = False on an OPEN breaker whose recovery_timeout has not
\* elapsed the call raises the circuit-open error at once: no tier is probed, the
\* breaker (state, failure_count) and connection_health are as before.
C6_CircuitOpenRaisesAtOnce ==
    (Called /\ ~last.use_fallback /\ Blocked(Before)) =>
        /\ last.ret = "raise" /\ last.error = "circuit_open"
        /\ last.trace = <<"breaker_check", "breaker_open">>
        /\ After = Before
        /\ connection_health[last.dep] = last.health

\* the rejection, on a dependency that had been probed before
C6_Witness ==
    /\ Called /\ ~last.use_fallback
    /\ last.error = "circuit_open"
    /\ After.state = "open"
    /\ last.health.failure_count > 0

\* C7: with use_fallback = False the call returns the primary client after a
\* successful primary probe or raises; it never hands out the secondary client or
\* the local engine, whatever the breaker state and the probes' answers.
C7_NoSilentDegradation ==
    (Called /\ ~last.use_fallback) =>
        \/ /\ last.ret = "primary"
           /\ last.trace = <<"breaker_check", "primary_probe">>
        \/ /\ last.ret = "raise"
           /\ last.error \in {"circuit_open", "primary_error"}
           /\ ~Has("secondary_probe") /\ ~Has("local_fallback")

\* the primary probe failed and the failure reached the caller
C7_Witness ==
    /\ Called /\ ~last.use_fallback
    /\ last.ret = "raise" /\ last.error = "primary_error"
    /\ Has("primary_failed")

\* C8: with use_fallback = True no primary or secondary failure reaches the caller:
\* the call returns the primary, the secondary or the local engine, unless the local
\* engine itself cannot be constructed.
C8_FallbackAbsorbsFailures ==
    (Called /\ last.use_fallback) =>
        \/ last.ret \in {"primary", "secondary", "local_fallback"} /\ last.error = "none"
        \/ /\ last.ret = "raise" /\ last.error = "fallback_error"
           /\ last.trace[Len(last.trace)] = "local_fallback"

\* primary and secondary both failed and the caller got the local engine
C8_Witness ==
    /\ Called /\ last.use_fallback
    /\ Has("primary_failed") /\ Has("secondary_failed")
    /\ last.ret = "local_fallback"

\* C9: within one call the tiers are tried in order and none early: the breaker
\* check comes first; the primary is probed only if the breaker admits the call; the
\* secondary is probed only after the primary probe failed or was skipped on an open
\* breaker; the local engine is reached only after the secondary probe failed or no
\* backup credentials were found.
C9_TiersInOrder ==
    Called =>
        /\ last.trace[1] = "breaker_check"
        /\ \A i, j \in DOMAIN last.trace : last.trace[i] = last.trace[j] => i = j
        /\ Has("breaker_open") <=> Blocked(Before)
        /\ Has("primary_probe") => ~Has("breaker_open")
        /\ Has("secondary_probe") =>
              \/ Precedes("primary_failed", "secondary_probe")
              \/ ~Has("primary_probe") /\ Precedes("breaker_open", "secondary_probe")
        /\ Has("local_fallback") =>
              /\ \/ Precedes("secondary_failed", "local_fallback")
                 \/ ~Has("secondary_probe") /\ Precedes("no_backup_key", "local_fallback")
              /\ \/ Precedes("primary_failed", "local_fallback")
                 \/ ~Has("primary_probe") /\ Precedes("breaker_open", "local_fallback")
        /\ last.ret = "primary" => ~Has("secondary_probe") /\ ~Has("local_fallback")
        /\ last.ret = "secondary" => ~Has("local_fallback")

\* the secondary answered after the primary probe had failed
C9_Witness ==
    /\ Called
    /\ last.trace = <<"breaker_check", "primary_probe", "primary_failed", "secondary_probe">>
    /\ last.ret = "secondary"

C11_PrimarySuccessRecorded ==
    (Called /\ ~Blocked(Before) /\ last.primary_ok) =>
        /\ last.ret = "primary" /\ last.error = "none"
        /\ After.last_success_time = now
        /\ After.state = "closed"
        /\ After.failure_count = IF Before.state = "closed" THEN Before.failure_count ELSE 0
        /\ connection_health[last.dep].healthy
        /\ connection_health[last.dep].failure_count = 0
        /\ connection_health[last.dep].last_success = now

\* a probing call on a breaker that had opened succeeded and closed it
C11_Witness ==
    /\ Called /\ last.primary_ok
    /\ Before.state \in {"open", "half_open"} /\ ~Blocked(Before)
    /\ Before.failure_count >= Before.failure_threshold
    /\ last.health.failure_count > 0
    /\ last.ret = "primary"
    /\ After.state = "closed" /\ After.failure_count = 0

\* the probes of the last call that failed
FailedProbes == Cardinality({i \in DOMAIN last.trace :
                               last.trace[i] \in {"primary_failed", "secondary_failed"}})

\* C12 as claimed: every probe failure of a ladder call, on the primary or on the
\* secondary tier, is recorded by the error monitor: the error count of the
\* dependency grows by the number of probes that failed.
C12_EveryProbeFailureTracked ==
    Called =>
        error_counts[ErrorKey(last.context, "ConnectionError")] = last.errors + FailedProbes

(* ------------------------------------------------------------------ *)
(* Properties of the error monitor's registry                          *)
(* ------------------------------------------------------------------ *)
\* the monitor before the last call (counts and breakers)
Pre == last.monitor

\* C14: track_error adds exactly 1 to error_counts[context:ErrorType]; with a breaker
\* registered under the context it performs one record_failure on that breaker
\* (failure_count + 1, last_failure_time = now, OPEN from the threshold on) and
\* leaves every other breaker alone; with none registered no breaker changes and
\* none is created.
C14_TrackErrorCountsOnce ==
    last.op = "track" =>
        LET c == last.context
            key == ErrorKey(c, last.error_type)
            old == Pre.circuit_breakers
        IN  /\ error_counts[key] = Pre.error_counts[key] + 1
            /\ \A k \in ErrorKeys \ {key} : error_counts[k] = Pre.error_counts[k]
            /\ last_errors[key].count = error_counts[key]
            /\ DOMAIN circuit_breakers = DOMAIN old
            /\ \A o \in DOMAIN old \ {c} : circuit_breakers[o] = old[o]
            /\ c \in DOMAIN old =>
                  circuit_breakers[c] =
                      [old[c] EXCEPT !.failure_count = @ + 1,
                                     !.last_failure_time = now,
                                     !.state = IF old[c].failure_count + 1 >=
                                                      old[c].failure_threshold
                                               THEN "open" ELSE @]

\* one error tracked under a context with a breaker while the other context has
\* none, and one tracked under a context without a breaker
C14_Witness ==
    /\ last.op = "track"
    /\ last.context \notin DOMAIN Pre.circuit_breakers
    /\ DOMAIN circuit_breakers # {}
    /\ \E o \in DOMAIN circuit_breakers : circuit_breakers[o].failure_count > 0

\* C15: registering a context that already has a breaker returns that breaker and
\* leaves the registry as it was: state, failure_count, failure_threshold and
\* recovery_timeout of the breaker are unchanged whatever the parameters passed.
C15_RegisterIdempotent ==
    (last.op = "register_circuit_breaker" /\ last.context \in DOMAIN Pre.circuit_breakers) =>
        /\ DOMAIN circuit_breakers = DOMAIN Pre.circuit_breakers
        /\ \A c \in DOMAIN circuit_breakers : circuit_breakers[c] = Pre.circuit_breakers[c]
        /\ last.returned = Pre.circuit_breakers[last.context]

\* an OPEN breaker registered again with another threshold and another timeout
C15_Witness ==
    /\ last.op = "register_circuit_breaker"
    /\ last.context \in DOMAIN Pre.circuit_breakers
    /\ Pre.circuit_breakers[last.context].state = "open"
    /\ last.failure_threshold # last.returned.failure_threshold
    /\ last.recovery_timeout # last.returned.recovery_timeout
    /\ circuit_breakers[last.context].state = "open"

(* ------------------------------------------------------------------ *)
(* Properties of the cache                                             *)
(* ------------------------------------------------------------------ *)
\* C16 as claimed: a get(k) that directly follows set(k, v, expire_in = t) returns v,
\* for every size bound and with or without the disk tier; once more than t seconds
\* have passed since the latest set of k, get(k) returns a miss.
C16_RoundTrip ==
    last.op = "cache_get" =>
        /\ (last.after_set.value # Absent /\ last.after_set.expire_in # None) =>
              last.ret = last.after_set.value
        /\ (cache_sets[last.key].expiry # None /\ cache_sets[last.key].expiry < now) =>
              last.ret = Miss

\* C17: get never returns a value whose expiry has passed: what it returns is the
\* value of the latest set of the key, none having deleted or cleared it since, and
\* the expiry of that set, if it has one, is not before now.
C17_NoExpiredValue ==
    (last.op = "cache_get" /\ last.ret # Miss) =>
        /\ cache_sets[last.key].value # Absent
        /\ last.ret = cache_sets[last.key].value
        /\ cache_sets[last.key].expiry # None => cache_sets[last.key].expiry >= now

\* a key set with an expiry is read after the expiry has passed and is not returned,
\* although the disk tier had kept it
C17_Witness ==
    /\ last.op = "cache_get" /\ last.ret = Miss
    /\ use_disk_cache
    /\ cache_sets[last.key].expiry # None /\ cache_sets[last.key].expiry < now
    /\ disk_cache[last.key] = NoData

\* C18 as claimed: after every set or get the memory tier holds at most
\* max_memory_items entries, entries without an expiry included.
C18_MemoryBounded ==
    last.op \in {"cache_set", "cache_get"} => MemorySize(memory_cache) <= max_memory_items

\* no set and no clean_expired is in progress
CacheQuiet == \A t \in CacheThreads : cache_pc[t] = "idle"

\* the latest set of k gave it a value that has not expired
Live(k) ==
    /\ cache_sets[k].value # Absent
    /\ cache_sets[k].expiry # None => cache_sets[k].expiry >= now

\* C19 as claimed: clean_expired run concurrently with set removes only what has
\* expired: once both have finished, every unexpired entry that a set wrote through
\* to the disk tier can be read back with get, and the sweep never fails on a key
\* that one dict holds and the other does not.
C19_SweepKeepsLiveEntries ==
    /\ DictKeys(expiry_times) \subseteq {k \in CacheKeys : memory_cache[k] # Absent}
    /\ (CacheQuiet /\ use_disk_cache) =>
          \A k \in CacheKeys :
              Live(k) => cache_get(TheCache, k, now, use_disk_cache, max_memory_items).ret
                           = cache_sets[k].value


(* ------------------------------------------------------------------ *)
(* Properties of the local fallback store                              *)
(* ------------------------------------------------------------------ *)
\* C13: a select of whole records through a fallback client returns every record that
\* was inserted through any fallback client handed out so far (an earlier one included),
\* has not been deleted since, and satisfies the query's predicates
C13_FallbackDataVisible ==
    (last.op = "execute" /\ last.query.select_columns = Star) =>
        \A w \in written :
            Matches(w.record, last.query.where_clauses) =>
                \E n \in 1 .. Len(last.data) : last.data[n] = w.record

\* a record inserted through the first fallback client, read back through the second one,
\* both handed out after a failed primary probe
C13_Witness ==
    /\ last.op = "execute"
    /\ last.client = 2
    /\ last.query = ResetQuery
    /\ connection_health["supabase"].failure_count > 0
    /\ \E w \in written :
           /\ w.client = 1
           /\ \E n \in 1 .. Len(last.data) : last.data[n] = w.record

(* ------------------------------------------------------------------ *)
(* Properties of the local fallback index                              *)
(* ------------------------------------------------------------------ *)
\* position of the row of an id in the vectors table
RowOf(id) == CHOOSE n \in 1 .. Len(vectors_table) : vectors_table[n].id = id

Stored(id) == \E n \in 1 .. Len(vectors_table) : vectors_table[n].id = id

\* A = [1,0], B = [0,1], C = [1,0] inserted in that order
TableABC ==
    /\ Len(vectors_table) = 3
    /\ vectors_table[1].id = "A" /\ vectors_table[1].values = <<1, 0>>
    /\ vectors_table[2].id = "B" /\ vectors_table[2].values = <<0, 1>>
    /\ vectors_table[3].id = "C" /\ vectors_table[3].values = <<1, 0>>

\* C20: a query returns at most top_k matches; every match is a stored vector whose
\* metadata equals the filter on every key of the filter, with its cosine score; the
\* matches are in descending order of score and, for equal scores, in the order the
\* rows were inserted; with A = [1,0], B = [0,1], C = [1,0] inserted in that order,
\* the query [1,0] with top_k = 2 and no filter returns A, then C
C20_QueryTopK ==
    last.op = "query" =>
        LET m == last.matches
        IN  /\ Len(m) <= last.top_k
            /\ \A i \in 1 .. Len(m) :
                   /\ Stored(m[i].id)
                   /\ \A k \in MetaKeys :
                          last.filter[k] # Absent =>
                              vectors_table[RowOf(m[i].id)].metadata[k] = last.filter[k]
                   /\ m[i].score = cosine_similarity(last.vector,
                                                     vectors_table[RowOf(m[i].id)].values)
            /\ \A i, j \in 1 .. Len(m) :
                   i < j => /\ m[i].score >= m[j].score
                            /\ m[i].score = m[j].score => RowOf(m[i].id) < RowOf(m[j].id)
            /\ (/\ TableABC
                /\ last.vector = <<1, 0>>
                /\ last.top_k = 2
                /\ \A k \in MetaKeys : last.filter[k] = Absent
                /\ \A n \in 1 .. 3 : vectors_table[n].namespace = last.namespace)
                   => (Len(m) = 2 /\ m[1].id = "A" /\ m[2].id = "C")

\* the example of the claim has been run: A, B, C stored in that order, [1,0] queried
\* with top_k = 2, and two matches of equal score came back
C20_Witness ==
    /\ last.op = "query"
    /\ TableABC
    /\ last.vector = <<1, 0>>
    /\ last.top_k = 2
    /\ \A k \in MetaKeys : last.filter[k] = Absent
    /\ Len(last.matches) = 2
    /\ last.matches[1].score = last.matches[2].score

\* C21: every match of a query with namespace n is a vector stored in namespace n,
\* the default (empty) namespace included
C21_NamespaceScoped ==
    last.op = "query" =>
        \A i \in 1 .. Len(last.matches) :
            vectors_table[RowOf(last.matches[i].id)].namespace = last.namespace

(* ------------------------------------------------------------------ *)
(* Properties of the fallback store's query builder                    *)
(* ------------------------------------------------------------------ *)
\* the records on record whose id is v
WrittenWithId(v) == {w.record : w \in {x \in written : x.record.id = v}}

\* C22: a select of whole records with one equality predicate on id returns exactly the
\* record inserted under that id, and no record once it has been deleted with that
\* predicate (or when none was inserted)
C22_StoreRoundTrip ==
    (/\ last.op = "execute"
     /\ last.query.select_columns = Star
     /\ Len(last.asked) = 1
     /\ last.asked[1][1] = "id")
        => IF WrittenWithId(last.asked[1][2]) # {}
           THEN /\ Len(last.data) = 1
                /\ last.data[1] \in WrittenWithId(last.asked[1][2])
           ELSE Len(last.data) = 0

\* C23: an insert that the engine rejected reaches the caller as an exception or as a
\* response whose error is set
C23_EngineFailureIsHard ==
    (last.op = "insert" /\ last.rejected) => (last.raised \/ last.error # "none")

\* C30: an update leaves every row that does not satisfy the predicates of that
\* operation as it was, in the builder's call order and in the primary client's
C30_UpdateFrame ==
    last.op = "update" =>
        \A n \in 1 .. Len(last.before) :
            ~Matches(last.before[n], last.asked) =>
                db_files[clients[last.client].db_path].rows[n] = last.before[n]

(* ------------------------------------------------------------------ *)
(* Properties of the breaker over long spans                           *)
(* ------------------------------------------------------------------ *)
\* C24: a record_failure that comes more than reset_timeout after the previously
\* recorded failure leaves failure_count at 1, and leaves a CLOSED breaker CLOSED
C24_ResetWindowRestartsCount ==
    (/\ last.op = "track_error"
     /\ Before.last_failure_time > 0
     /\ now - Before.last_failure_time > Before.reset_timeout)
        => /\ After.failure_count = 1
           /\ Before.state = "closed" => After.state = "closed"

C26_DefinedEdgesOnly ==
    last.op \in {"track_error", "record_success", "circuit_is_closed"} =>
        /\ After.state # Before.state =>
              \/ last.op = "track_error" /\ After.state = "open"
              \/ /\ last.op = "circuit_is_closed"
                 /\ Before.state = "open" /\ After.state = "half_open"
              \/ /\ last.op = "record_success"
                 /\ Before.state = "half_open" /\ After.state = "closed"
        /\ (After.state = "open" /\ (Before.state # "open" \/ last.op = "track_error")) =>
              After.failure_count >= After.failure_threshold

\* a success recorded on an OPEN breaker, which stayed OPEN
C26_Witness ==
    /\ last.op = "record_success"
    /\ Before.state = "open"
    /\ After.state = "open"

(* ------------------------------------------------------------------ *)
(* Properties of the cache: eviction, promotion, write-through         *)
(* ------------------------------------------------------------------ *)
\* the step is a set or a get that pushed key k out of the memory tier
Evicted(k) ==
    /\ last'.op \in {"cache_set", "cache_get"}
    /\ memory_cache'[k] = Absent
    /\ memory_cache[k] # Absent \/ k = last'.key
    /\ ~(last'.op = "cache_get" /\ k = last'.key /\ last'.ret = Miss)

\* entry k expires no later than entry j, an entry without an expiry expiring last
ExpiresFirst(k, j) ==
    \/ cache_sets'[j].expiry = None
    \/ cache_sets'[k].expiry # None /\ cache_sets'[k].expiry <= cache_sets'[j].expiry

\* C27: a set or get that evicts takes the entries with the earliest expiry: every
\* entry evicted expires no later than every entry kept, and an entry that was set
\* without an expiry is evicted only if no entry kept has one
C27_EvictsEarliestExpiry ==
    [][\A k \in CacheKeys :
           Evicted(k) =>
               \A j \in CacheKeys : memory_cache'[j] # Absent => ExpiresFirst(k, j)]_vars

\* the last call was a get of a key that the memory tier did not hold and that has a
\* cache file
DiskLookup ==
    /\ last.op = "cache_get"
    /\ use_disk_cache
    /\ ~last.in_memory
    /\ last.disk.value # Absent

\* the memory tier holds the last key with the value and the expiry of its cache file
Promoted ==
    /\ memory_cache[last.key] = last.disk.value
    /\ IF last.disk.expiry = None
       THEN last.key \notin DictKeys(expiry_times)
       ELSE /\ last.key \in DictKeys(expiry_times)
            /\ DictGet(expiry_times, last.key) = last.disk.expiry

\* the memory tier was full and the last key, promoted, had the earliest expiry: the
\* size check of the same get has evicted it again
EvictedAtOnce ==
    /\ memory_cache[last.key] = Absent
    /\ last.key \notin DictKeys(expiry_times)
    /\ last.disk.expiry # None
    /\ last.size >= max_memory_items
    /\ \A j \in DictKeys(expiry_times) : last.disk.expiry <= DictGet(expiry_times, j)

\* C28 as claimed: get(k) for a key absent from the memory tier returns the value of an
\* unexpired cache file and leaves it in the memory tier with the same expiry; an
\* expired cache file is removed and the get is a miss
C28_DiskHitPromotes ==
    DiskLookup =>
        IF DiskExpired(last.disk, now)
        THEN last.ret = Miss /\ disk_cache[last.key] = NoData
        ELSE last.ret = last.disk.value /\ Promoted

\* C28: the same, except that the promoted entry may be evicted at once by the size
\* check that ends the get, when the memory tier was full and its expiry is the earliest
C28_DiskHitPromotesOrEvicts ==
    DiskLookup =>
        IF DiskExpired(last.disk, now)
        THEN last.ret = Miss /\ disk_cache[last.key] = NoData
        ELSE last.ret = last.disk.value /\ (Promoted \/ EvictedAtOnce)

\* a key that had been evicted from the memory tier is read back from its cache file,
\* expiry included
C28_Witness ==
    /\ DiskLookup
    /\ last.disk.expiry # None /\ ~DiskExpired(last.disk, now)
    /\ last.ret = last.disk.value
    /\ Promoted

\* no caller is inside set
SettersDone == \A t \in DOMAIN cache_pc : cache_pc[t] = "idle"

\* the expiry the memory tier records for k, None without one
MemoryExpiry(k) == IF k \in DictKeys(expiry_times) THEN DictGet(expiry_times, k) ELSE None

\* C29: Cache.set is write-through and the tiers agree: once every set in flight has
\* returned, a key that has been set while the disk tier is enabled is in the disk tier,
\* and a key held by both tiers has the same value and the same expiry in both, also
\* when two callers set the same key concurrently
C29_TiersAgree ==
    (SettersDone /\ use_disk_cache) =>
        \A k \in CacheKeys :
            /\ cache_sets[k] # NoData => disk_cache[k] # NoData
            /\ (memory_cache[k] # Absent /\ disk_cache[k] # NoData) =>
                   /\ memory_cache[k] = disk_cache[k].value
                   /\ MemoryExpiry(k) = disk_cache[k].expiry

\* the columns a query asked for, "*" standing for all columns of the table
Requested(query) ==
    IF query.select_columns = Star THEN {Columns[i] : i \in 1 .. Len(Columns)}
    ELSE {query.select_columns[i] : i \in 1 .. Len(query.select_columns)}

\* C31: select(columns) followed by execute() returns, for each matching row, a record
\* that maps each requested column name to that row's value of that very column, for
\* every column list
C31_SelectColumns ==
    last.op = "execute" =>
        LET rows == db_files[clients[last.client].db_path].rows
            hits == SelectSeq(rows, LAMBDA r : Matches(r, last.query.where_clauses))
        IN  /\ Len(last.data) = Len(hits)
            /\ \A n \in 1 .. Len(hits) :
                   /\ DOMAIN last.data[n] = Requested(last.query)
                   /\ \A col \in Requested(last.query) : last.data[n][col] = hits[n][col]

(* ------------------------------------------------------------------ *)
(* Successes between failures                                          *)
(* ------------------------------------------------------------------ *)
\* the call is a record_failure on a CLOSED breaker whose latest success is later than
\* its latest failure
FailureAfterSuccess ==
    /\ last.op = "track_error"
    /\ Before.state = "closed"
    /\ Before.failure_count > 0
    /\ Before.last_success_time > Before.last_failure_time

\* C32: record_success on a CLOSED or OPEN breaker leaves state and failure_count
\* unchanged, so a failure recorded after a success adds to the failures counted before
\* it and opens the breaker once failure_threshold is reached
C32_SuccessKeepsCount ==
    /\ (last.op = "record_success" /\ Before.state \in {"closed", "open"}) =>
           /\ After.state = Before.state
           /\ After.failure_count = Before.failure_count
    /\ FailureAfterSuccess =>
           /\ After.failure_count = Before.failure_count + 1
           /\ After.state = IF After.failure_count >= After.failure_threshold
                            THEN "open" ELSE "closed"

\* failure, success, failure: the second failure opens the breaker
C32_Witness ==
    /\ FailureAfterSuccess
    /\ After.state = "open"
    /\ After.failure_count = After.failure_threshold

(* ------------------------------------------------------------------ *)
(* Recovery and reported health                                        *)
(* ------------------------------------------------------------------ *)
\* the call is a get_*_client that found the primary reachable
ReachableCall == last.op = "get_client" /\ last.primary_ok

\* the call came to an OPEN breaker more than recovery_timeout after its last failure
AfterRecoveryTimeout ==
    /\ Before.state = "open"
    /\ now - Before.last_failure_time > Before.recovery_timeout

\* C33: with the primary reachable, the first get_*_client call made more than
\* recovery_timeout after the last failure of an OPEN breaker probes the primary, closes
\* the breaker with failure_count 0 and returns the primary client; a call that finds
\* the breaker CLOSED or HALF_OPEN returns the primary client and leaves it CLOSED, so
\* every later call returns the primary client too
C33_RecoveryReached ==
    ReachableCall =>
        /\ AfterRecoveryTimeout =>
               /\ last.trace = <<"breaker_check", "primary_probe">>
               /\ last.ret = "primary"
               /\ After.state = "closed"
               /\ After.failure_count = 0
        /\ Before.state # "open" =>
               /\ last.ret = "primary"
               /\ After.state = "closed"

\* an OPEN breaker closed by the first call after recovery_timeout
C33_Witness ==
    /\ ReachableCall
    /\ AfterRecoveryTimeout
    /\ last.ret = "primary"
    /\ After.state = "closed"

\* the step is a get_*_client call on dependency d that probed the primary
ProbedStep(d) ==
    /\ last'.op = "get_client"
    /\ last'.dep = d
    /\ Len(last'.trace) >= 2
    /\ last'.trace[2] = "primary_probe"

\* healthy follows the probes: a step that probes d leaves healthy at the probe's
\* result, any other step leaves it as it was
HealthFollowsProbe(d) ==
    IF ProbedStep(d)
    THEN connection_health'[d].healthy = (last'.ret = "primary")
    ELSE connection_health'[d].healthy = connection_health[d].healthy

\* C34: whenever the breaker of a dependency is OPEN or HALF_OPEN its connection_health
\* has healthy = false, and healthy = true holds only if the most recent primary probe
\* succeeded
C34_HealthAgreesWithBreaker ==
    /\ [](\A d \in Deps :
             circuit_breakers[Context(d)].state \in {"open", "half_open"} =>
                 ~connection_health[d].healthy)
    /\ [][\A d \in Deps : HealthFollowsProbe(d)]_vars

\* a dependency reported healthy whose next probes failed until the breaker opened
C34_Witness ==
    /\ last.op = "get_client"
    /\ last.health.last_success # None
    /\ Before.state = "closed"
    /\ After.state = "open"
    /\ ~connection_health[last.dep].healthy

(* ------------------------------------------------------------------ *)
(* Properties of the cache: a set replacing an earlier one, delete     *)
(* ------------------------------------------------------------------ *)
\* the memory bound admits every key: no set and no get evicts
NoEviction == max_memory_items >= Cardinality(CacheKeys)

\* C35: a set(k, v2) without expire_in fully replaces the earlier sets of k: without a
\* delete, a clear or an eviction since, get(k) returns v2 at any later time, also after
\* the expiry given by an earlier set(k, v1, expire_in = t) has passed, with or without
\* the disk tier
C35_SetReplacesExpiry ==
    (/\ last.op = "cache_get"
     /\ NoEviction
     /\ cache_sets[last.key].value # Absent
     /\ cache_sets[last.key].expiry = None)
        => last.ret = cache_sets[last.key].value

\* C36: Cache.delete is final under concurrency: once delete(k) has returned and no
\* set(k) follows, every get(k) that starts afterwards returns a miss, even if another
\* get(k) was reading k from the disk tier while the delete ran
C36_DeleteIsFinal ==
    (last.op = "cache_get" /\ last.after_delete) => last.ret = Miss

(* ------------------------------------------------------------------ *)
(* Properties of the fallback index's vector_cache                     *)
(* ------------------------------------------------------------------ *)
\* what the table holds for id in namespace n: values and metadata, NotCached for none
StoredVector(id, n) ==
    IF \E k \in 1 .. Len(vectors_table) :
           vectors_table[k].id = id /\ vectors_table[k].namespace = n
    THEN LET r == vectors_table[CHOOSE k \in 1 .. Len(vectors_table) :
                                    vectors_table[k].id = id]
         IN  Cached(r.values, r.metadata, Absent)
    ELSE NotCached

\* C37: vector_cache never disagrees with the durable store: after any sequence of
\* upsert, delete, query and fetch through one or several instances over the same
\* database file, fetch(ids, namespace = n) returns exactly the vectors stored under
\* those ids in namespace n
C37_FetchReturnsStored ==
    last.op = "fetch" =>
        \A id \in VectorIds :
            last.vectors[id] = IF id \in last.ids THEN StoredVector(id, last.namespace)
                               ELSE NotCached

(* ------------------------------------------------------------------ *)
(* Properties of the query builder's predicates                        *)
(* ------------------------------------------------------------------ *)
\* the rows of the table that satisfy the predicates, as the dicts a select returns
RowsAsked(rows, predicates) ==
    LET hits == SelectSeq(rows, LAMBDA r : Matches(r, predicates))
    IN  [n \in 1 .. Len(hits) |-> RowDict([i \in 1 .. Len(Columns) |-> hits[n][Columns[i]]])]

\* C38: predicates are scoped to one operation: a select applies exactly the eq
\* predicates its caller added since the previous operation on the table finished, and
\* an update changes no row that fails them; filters left by an earlier update or
\* delete do not leak into it
C38_PredicatesScoped ==
    /\ last.op = "execute" =>
           /\ last.query.where_clauses = last.asked
           /\ last.data = RowsAsked(db_files[clients[last.client].db_path].rows, last.asked)
    /\ (last.op = "update" /\ last.order = "eq_first") =>
           \A n \in 1 .. Len(last.before) :
               ~Matches(last.before[n], last.asked) =>
                   db_files[clients[last.client].db_path].rows[n] = last.before[n]

(* ------------------------------------------------------------------ *)
(* Properties of retry_with_backoff                                    *)
(* ------------------------------------------------------------------ *)
\* the call of the wrapped function has ended
RetryDone == retry.pc = "idle" /\ retry.outcome # "none"

\* invocations of the call that raised
FailedInvocations == retry.invocations - (IF retry.outcome = "returned" THEN 1 ELSE 0)

\* the invocations the wrapper allows: max_retries of them, and one when max_retries < 1
Attempts(max_retries) == IF max_retries > 1 THEN max_retries ELSE 1

\* C39 as claimed: a call through retry_with_backoff(max_retries = n) invokes the
\* function at most n times, returns the first successful result or re-raises the
\* exception of the n-th failing invocation, and tracks every failing invocation once
C39_AtMostNInvocations ==
    /\ retry.invocations <= retry.max_retries
    /\ retry.tracked = FailedInvocations
    /\ (RetryDone /\ retry.context = NoContext) =>
           /\ retry.outcome \in {"returned", "raised"}
           /\ retry.outcome = "raised" =>
                  retry.raised_at = retry.max_retries /\ retry.invocations = retry.max_retries

\* C39: a call through retry_with_backoff(max_retries = n) invokes the function at most
\* max(n, 1) times, returns the first successful result or re-raises the exception of
\* the max(n, 1)-th failing invocation, and tracks every failing invocation once
C39_AtMostAttempts ==
    /\ retry.invocations <= Attempts(retry.max_retries)
    /\ retry.tracked = FailedInvocations
    /\ (RetryDone /\ retry.context = NoContext) =>
           /\ retry.outcome \in {"returned", "raised"}
           /\ retry.outcome = "raised" =>
                  /\ retry.raised_at = Attempts(retry.max_retries)
                  /\ retry.invocations = Attempts(retry.max_retries)

\* every allowed invocation failed: the exception of the last one reaches the caller
C39_Witness ==
    /\ RetryDone
    /\ retry.context = NoContext
    /\ retry.outcome = "raised"
    /\ retry.max_retries = MaxRetries
    /\ retry.tracked = MaxRetries

\* the breaker the call was given
RetryBreaker == circuit_breakers[retry.context]

\* C40 as claimed: with a circuit_breaker_context the function is never invoked after a
\* check that found the breaker OPEN, and a call that leaves the breaker OPEN ended in
\* the circuit-open RuntimeError, not in the function's own exception
C40_OpenBreakerStopsRetries ==
    /\ (retry.pc = "invoke" /\ retry.context # NoContext) => retry.checked # "open"
    /\ (RetryDone /\ retry.context # NoContext /\ RetryBreaker.state = "open") =>
           retry.outcome = "circuit_open"

\* the check at the top of the loop refuses: the breaker is OPEN and its
\* recovery_timeout has not elapsed since the last failure
CheckRefuses ==
    /\ retry.context # NoContext
    /\ RetryBreaker.state = "open"
    /\ ~(now - RetryBreaker.last_failure_time > RetryBreaker.recovery_timeout)

\* a step of the wrapper from the top of the loop: a refused check ends the call in the
\* circuit-open RuntimeError with no further invocation, any other check lets the
\* function be invoked, and nothing else produces that RuntimeError
CheckDecides ==
    IF retry.pc = "check" /\ retry'.pc # "check"
    THEN IF CheckRefuses
         THEN /\ retry'.pc = "idle"
              /\ retry'.outcome = "circuit_open"
              /\ retry'.invocations = retry.invocations
         ELSE /\ retry'.pc = "invoke"
              /\ retry'.outcome = retry.outcome
    ELSE retry'.outcome = "circuit_open" => retry.outcome = "circuit_open"

\* C40: retry_with_backoff with a circuit_breaker_context asks the breaker before every
\* attempt: the function is invoked only after a check that allowed it, a check that
\* finds the breaker OPEN within its recovery_timeout raises the circuit-open
\* RuntimeError with no further invocation, and the function's own exception is
\* re-raised only by the failure that reaches the retry limit
C40_RefusedCheckStopsRetries ==
    /\ [](/\ retry.pc = "invoke" =>
                /\ retry.allowed
                /\ retry.context # NoContext => RetryBreaker.state # "open"
          /\ retry.outcome = "circuit_open" =>
                /\ retry.pc = "idle"
                /\ ~retry.allowed
                /\ retry.checked = "open"
                /\ retry.retry_count < Attempts(retry.max_retries)
          /\ retry.outcome = "raised" =>
                /\ retry.allowed
                /\ retry.retry_count >= retry.max_retries)
    /\ [][CheckDecides]_vars

\* the failures the wrapper tracked opened the breaker and the next check refused
C40_Witness ==
    /\ retry.outcome = "circuit_open"
    /\ retry.context = SharedContext
    /\ retry.invocations > 0
    /\ retry.tracked = retry.invocations
    /\ retry.max_retries > retry.invocations

====
